---- MODULE Spec2Model ----
(***************************************************************************)
(* A model of the renderer of algo-visualizer (src/renderer/renderer.js):  *)
(* the random graph generator, the five stepwise traversal state machines  *)
(* (DFS, BFS, Dijkstra, Prim, Kruskal), the worklist projection and the    *)
(* button / select / checkbox / interval-timer handlers that drive them.   *)
(*                                                                         *)
(* JavaScript objects are records, arrays are sequences, Set objects are   *)
(* sets and Map objects are functions whose domain is the set of keys.     *)
(* null is the record Null.  Every handler is one action; the functions a  *)
(* handler calls are operators from a "world" (the record of the mutable   *)
(* globals and of the DOM they write) to the world they leave behind.      *)
(***************************************************************************)
EXTENDS Integers, Sequences, FiniteSets, TLC

\* Largest node count the model generates (the code clamps to 25).
MaxNodes == 3
\* Largest edge weight the model draws (the code draws from 1..9).
MaxWeight == 2
\* The same two bounds for the graphs of Spec, where every page event interleaves
\* with every other: the graphs Spec generates have at most PageMaxNodes nodes and
\* weights of at most PageMaxWeight.
PageMaxNodes == 2
PageMaxWeight == 1

VARIABLES
    currentGraph,       \* let currentGraph: a Graph record, or Null
    traversalState,     \* let traversalState: a traversal record, or Null
    autoRunInterval,    \* let autoRunInterval: [handle |-> h], or Null
    timers,             \* the handles of the intervals the scheduler still fires
    algoSelect,         \* algoSelect.value
    edgeWeightsChecked, \* edgeWeightsCheckbox.checked
    status,             \* statusEl.textContent
    worklistDom,        \* stackContainer / worklistTitle / col1..3 / worklistBody
    history             \* what the program did, kept for the properties only:
                        \*   visitLog: the nodes of traversalState.visited in the order
                        \*             visited.add was called on them
                        \*   stepCalls: how many step functions the last event ran
                        \*   ticked: whether the live interval has fired since setInterval
                        \*   cleared: whether the last event called clearInterval, on an
                        \*            interval that had not fired ("fresh") or had ("ticked")
                        \*   started: whether the last event called startTraversal, with
                        \*            traversalState null ("first") or not ("again")
                        \*   discarded: whether the last event assigned null to a
                        \*            traversalState that held a traversal

vars == <<currentGraph, traversalState, autoRunInterval, timers, algoSelect,
          edgeWeightsChecked, status, worklistDom, history>>

Null == [null |-> TRUE]

----------------------------------------------------------------------------
(* Generic helpers for Map objects and arrays.                             *)

EmptyMap == [k \in {} |-> 0]

\* JavaScript evaluates an argument once, before the call.  Only({e(v) : v \in {arg}})
\* is e on the value of arg, computed once.
Only(S) == CHOOSE x \in S : TRUE

MapHas(m, k) == k \in DOMAIN m

MapSet(map, k, v) ==
    Only({(
    [x \in (DOMAIN m) \cup {k} |-> IF x = k THEN v ELSE m[x]]
    ) : m \in {map}})

\* array.shift() leaves the tail
Shifted(s) == SubSeq(s, 2, Len(s))

\* array.pop() leaves the front
Popped(s) == SubSeq(s, 1, Len(s) - 1)

\* array.splice(idx, 0, item) with idx counted from 1
InsertAt(list, idx, item) ==
    Only({(
    SubSeq(s, 1, idx - 1) \o <<item>> \o SubSeq(s, idx, Len(s))
    ) : s \in {list}})

\* array.findIndex(pred): the first index whose element is in Hits, or 0 for -1
FirstIndexIn(list, hitSet) ==
    Only({(
    IF \E k \in 1..Len(s) : s[k] \in Hits
    THEN CHOOSE k \in 1..Len(s) : s[k] \in Hits /\ \A m \in 1..(k - 1) : s[m] \notin Hits
    ELSE 0
    ) : s \in {list}, Hits \in {hitSet}})

\* Array.prototype.sort with the comparator (a, b) => key(a) - key(b), where keys[k]
\* is the key of s[k]: ascending and stable, so s[k] lands behind every element
\* with a smaller key and behind the earlier elements with an equal key.
StableSortBy(list, keyOf) ==
    Only({(
    LET rankOf(k) == Cardinality({m \in 1..Len(s) :
                         keys[m] < keys[k] \/ (keys[m] = keys[k] /\ m < k)}) + 1
    IN [p \in 1..Len(s) |-> s[CHOOSE k \in 1..Len(s) : rankOf(k) = p]]
    ) : s \in {list}, keys \in {keyOf}})

----------------------------------------------------------------------------
(* ALGORITHMS and getAlgorithmConfig.  edgeChance is a probability; the    *)
(* model keeps it in percent.                                              *)

AlgoKeys == {"dfs", "bfs", "dijkstra", "prim", "kruskal"}

ALGORITHMS ==
    [dfs      |-> [id |-> "dfs", label |-> "Depth-First Search", edgeChance |-> 30, forceWeights |-> FALSE],
     bfs      |-> [id |-> "bfs", label |-> "Breadth-First Search", edgeChance |-> 35, forceWeights |-> FALSE],
     dijkstra |-> [id |-> "dijkstra", label |-> "Dijkstra", edgeChance |-> 45, forceWeights |-> FALSE],
     prim     |-> [id |-> "prim", label |-> "Prim (MST)", edgeChance |-> 40, forceWeights |-> TRUE],
     kruskal  |-> [id |-> "kruskal", label |-> "Kruskal (MST)", edgeChance |-> 40, forceWeights |-> TRUE]]

getAlgorithmConfig(key) ==
    IF key \in DOMAIN ALGORITHMS THEN ALGORITHMS[key]
    ELSE [id |-> key, label |-> "Custom", edgeChance |-> 30, forceWeights |-> FALSE]

----------------------------------------------------------------------------
(* class Graph                                                             *)

\* Graph.randomInt(min, max): every value Math.floor(Math.random()*(max-min+1))+min can take
randomInt(min, max) == min..max

\* Graph.randomWeight(enabled), with the draw capped at MaxWeight
randomWeight(enabled) == IF enabled THEN randomInt(1, MaxWeight) ELSE {1}

\* Mutant of edgeExists: the reversed orientation is not looked for.
edgeExists_oneWay(edges, a, b) ==
    \E k \in 1..Len(edges) : edges[k].from = a /\ edges[k].to = b

\* Graph.edgeExists(edges, a, b)
edgeExists(edges, a, b) ==
    \E k \in 1..Len(edges) :
        \/ edges[k].from = a /\ edges[k].to = b
        \/ edges[k].from = b /\ edges[k].to = a

\* The outcomes of Math.random() < edgeChance for a chance given in percent.
coinFlips(edgeChance) ==
    (IF edgeChance > 0 THEN {TRUE} ELSE {}) \cup (IF edgeChance < 100 THEN {FALSE} ELSE {})

\* Graph.random, first loop: node i is attached to a random earlier node.
RECURSIVE spanningTreeLoop(_, _, _, _)
spanningTreeLoop(i, nodeCount, withWeights, edges) ==
    IF i >= nodeCount THEN {edges}
    ELSE UNION { spanningTreeLoop(i + 1, nodeCount, withWeights,
                     Append(edges, [from |-> i, to |-> target, weight |-> w])) :
                 <<target, w>> \in randomInt(0, i - 1) \X randomWeight(withWeights) }

\* Graph.random, second loop: every pair i < j gets an edge when the coin says so
\* and no edge joins the pair yet.
RECURSIVE densityLoop(_, _, _, _, _, _)
densityLoop(i, j, nodeCount, edgeChance, withWeights, edges) ==
    IF i >= nodeCount THEN {edges}
    ELSE IF j >= nodeCount
    THEN densityLoop(i + 1, i + 2, nodeCount, edgeChance, withWeights, edges)
    ELSE UNION { IF coin /\ ~edgeExists(edges, i, j)
                 THEN UNION { densityLoop(i, j + 1, nodeCount, edgeChance, withWeights,
                                  Append(edges, [from |-> i, to |-> j, weight |-> w])) :
                              w \in randomWeight(withWeights) }
                 ELSE densityLoop(i, j + 1, nodeCount, edgeChance, withWeights, edges) :
                 coin \in coinFlips(edgeChance) }

\* The nodes array of Graph.random: ids 0..nodeCount-1, label = char code 65 + i.
\* (pos is display jitter and is left out.)
makeNodes(nodeCount) == [k \in 1..nodeCount |-> [id |-> k - 1, label |-> 65 + (k - 1)]]

\* Mutant of GraphRandom: the spanning-tree loop starts at node 2.
GraphRandom_treeFromNode2(nodeCount, edgeChance, withWeights) ==
    { [nodes |-> makeNodes(nodeCount), edges |-> e, showWeights |-> withWeights] :
      e \in UNION { densityLoop(0, 1, nodeCount, edgeChance, withWeights, t) :
                    t \in spanningTreeLoop(2, nodeCount, withWeights, <<>>) } }

\* Graph.random(nodeCount, edgeChance, withWeights): the set of graphs it can return.
\* A Graph is [nodes, edges, showWeights]; nodeById is getNode below.
GraphRandom(nodeCount, edgeChance, withWeights) ==
    { [nodes |-> makeNodes(nodeCount), edges |-> e, showWeights |-> withWeights] :
      e \in UNION { densityLoop(0, 1, nodeCount, edgeChance, withWeights, t) :
                    t \in spanningTreeLoop(1, nodeCount, withWeights, <<>>) } }

\* graph.getNode(id): the node, or Null for undefined
getNode(graph, id) ==
    IF \E k \in 1..Len(graph.nodes) : graph.nodes[k].id = id
    THEN graph.nodes[CHOOSE k \in 1..Len(graph.nodes) : graph.nodes[k].id = id]
    ELSE Null

\* currentGraph.getNode(id)?.label ?? id
labelOf(graph, id) == IF getNode(graph, id) = Null THEN id ELSE getNode(graph, id).label

NodeIds(graph) == {graph.nodes[k].id : k \in 1..Len(graph.nodes)}

----------------------------------------------------------------------------
(* The world the functions below read and write: the three module-level    *)
(* lets, the scheduler's live intervals, the status line and the worklist  *)
(* panel of the DOM.                                                       *)

World ==
    [currentGraph    |-> currentGraph,
     traversalState  |-> traversalState,
     autoRunInterval |-> autoRunInterval,
     timers          |-> timers,
     status          |-> status,
     worklistDom     |-> worklistDom,
     history         |-> history]

\* A status text: the template and the values interpolated into it.
Msg(text, args) == [text |-> text, args |-> args, label |-> ""]

\* A status text that also names an algorithm by its label.
MsgFor(text, args, label) == [text |-> text, args |-> args, label |-> label]

\* logStatus(msg)
logStatus(w, msg) == [w EXCEPT !.status = msg]

\* Table cells: a number, a node label (a char code), or a fixed text.
NumCell(n) == [num |-> n]
TxtCell(t) == [txt |-> t]
ChrCell(c) == [chr |-> c]

\* currentGraph?.getNode(id)?.label ?? id, as a cell
labelCell(graph, id) ==
    IF graph = Null \/ getNode(graph, id) = Null THEN NumCell(id)
    ELSE ChrCell(getNode(graph, id).label)

\* canonicalEdgeKey(a, b): the string `${low}-${high}`, kept as the pair it spells
canonicalEdgeKey(a, b) ==
    LET low  == IF a <= b THEN a ELSE b
        high == IF a <= b THEN b ELSE a
    IN <<low, high>>

\* edgeWeightBetween(graph, a, b): the first matching edge's weight, or Null
edgeWeightBetween(graph, a, b) ==
    LET hits == {k \in 1..Len(graph.edges) :
                    \/ graph.edges[k].from = a /\ graph.edges[k].to = b
                    \/ graph.edges[k].from = b /\ graph.edges[k].to = a}
    IN IF hits = {} THEN Null
       ELSE NumCell(graph.edges[CHOOSE k \in hits : \A m \in hits : k <= m].weight)

\* buildAdjacency(graph): each node's neighbour ids, in edge order, then sorted ascending
RECURSIVE neighborList(_, _, _)
neighborList(edgeList, index, node) ==
    Only({(
    IF k > Len(edges) THEN <<>>
    ELSE (IF edges[k].from = id THEN <<edges[k].to>> ELSE <<>>)
         \o (IF edges[k].to = id THEN <<edges[k].from>> ELSE <<>>)
         \o neighborList(edges, k + 1, id)
    ) : edges \in {edgeList}, k \in {index}, id \in {node}})

buildAdjacency(graph) ==
    [id \in NodeIds(graph) |->
        LET list == neighborList(graph.edges, 1, id)
        IN StableSortBy(list, list)]

\* buildWeightedAdjacency(graph): each node's {to, weight} entries, sorted by to
RECURSIVE weightedNeighborList(_, _, _)
weightedNeighborList(edgeList, index, node) ==
    Only({(
    IF k > Len(edges) THEN <<>>
    ELSE (IF edges[k].from = id THEN <<[to |-> edges[k].to, weight |-> edges[k].weight]>> ELSE <<>>)
         \o (IF edges[k].to = id THEN <<[to |-> edges[k].from, weight |-> edges[k].weight]>> ELSE <<>>)
         \o weightedNeighborList(edges, k + 1, id)
    ) : edges \in {edgeList}, k \in {index}, id \in {node}})

buildWeightedAdjacency(graph) ==
    [id \in NodeIds(graph) |->
        LET list == weightedNeighborList(graph.edges, 1, id)
        IN StableSortBy(list, [k \in 1..Len(list) |-> list[k].to])]

\* traversalState.adjacency.get(id) ?? []
adjacencyGet(adjacency, id) == IF id \in DOMAIN adjacency THEN adjacency[id] ELSE <<>>

\* Mutant of enqueueByDistance: the item goes to the back of the queue.
enqueueByDistance_appends(list, entry) == Append(list, entry)

\* enqueueByDistance(queue, item): before the first entry with a greater dist
enqueueByDistance(list, entry) ==
    Only({(
    LET idx == FirstIndexIn(queue, {e \in {queue[k] : k \in 1..Len(queue)} : item.dist < e.dist})
    IN IF idx = 0 THEN Append(queue, item) ELSE InsertAt(queue, idx, item)
    ) : queue \in {list}, item \in {entry}})

\* Mutant of enqueueEdgeByWeight: <= for <, the edge goes before the entries of
\* its own weight.
enqueueEdgeByWeight_beforeTies(list, entry) ==
    Only({(
    LET idx == FirstIndexIn(queue, {e \in {queue[k] : k \in 1..Len(queue)} : edge.weight <= e.weight})
    IN IF idx = 0 THEN Append(queue, edge) ELSE InsertAt(queue, idx, edge)
    ) : queue \in {list}, edge \in {entry}})

\* enqueueEdgeByWeight(queue, edge): before the first entry with a greater weight
enqueueEdgeByWeight(list, entry) ==
    Only({(
    LET idx == FirstIndexIn(queue, {e \in {queue[k] : k \in 1..Len(queue)} : edge.weight < e.weight})
    IN IF idx = 0 THEN Append(queue, edge) ELSE InsertAt(queue, idx, edge)
    ) : queue \in {list}, edge \in {entry}})

\* graph.nodes[0]?.id ?? 0
startNodeOf(graph) == IF Len(graph.nodes) > 0 THEN graph.nodes[1].id ELSE 0

----------------------------------------------------------------------------
(* updateWorklist: the worklist panel.  The panel is what the function     *)
(* writes: stackContainer.style.display, the title, the three column       *)
(* headers, col3.style.display and the rows of worklistBody.               *)

EmptyRow == <<TxtCell("-"), TxtCell("Empty"), TxtCell("-")>>

\* weight != null ? weight : "-"  for the edge between a node and its recorded parent
parentWeightCell(w, nodeId) ==
    LET parents == w.traversalState.parents
        weight  == IF MapHas(parents, nodeId)
                   THEN edgeWeightBetween(w.currentGraph, parents[nodeId], nodeId)
                   ELSE Null
    IN IF weight = Null THEN TxtCell("-") ELSE weight

\* Mutant of panelFor: worklistBody.innerHTML is not cleared.
panelFor_keepsRows(dom, title, c1, c2, c3) ==
    [dom EXCEPT !.display = "block", !.title = title, !.col1 = c1, !.col2 = c2,
                !.col3 = c3, !.col3display = ""]

\* The header part every branch writes, and the rows cleared by innerHTML = "";
\* the branch then appends its rows.
panelFor(dom, title, c1, c2, c3) ==
    [dom EXCEPT !.display = "block", !.title = title, !.col1 = c1, !.col2 = c2,
                !.col3 = c3, !.col3display = "", !.rows = <<>>]

\* rows of the DFS branch: the stack reversed, top first
dfsRows(w) ==
    LET stack == w.traversalState.stack
    IN IF Len(stack) = 0 THEN <<EmptyRow>>
       ELSE [idx \in 1..Len(stack) |->
               LET nodeId == stack[Len(stack) - idx + 1]
               IN <<NumCell(idx), labelCell(w.currentGraph, nodeId), parentWeightCell(w, nodeId)>>]

\* rows of the BFS branch: the queue front first
bfsRows(w) ==
    LET queue == w.traversalState.queue
    IN IF Len(queue) = 0 THEN <<EmptyRow>>
       ELSE [idx \in 1..Len(queue) |->
               <<NumCell(idx), labelCell(w.currentGraph, queue[idx]), parentWeightCell(w, queue[idx])>>]

\* rows of the Prim branch (queue) and of the Kruskal branch (remainingEdges)
edgeRows(w, list) ==
    IF Len(list) = 0 THEN <<EmptyRow>>
    ELSE [idx \in 1..Len(list) |->
            <<NumCell(idx),
              [edgeFrom |-> labelCell(w.currentGraph, list[idx].from),
               edgeTo   |-> labelCell(w.currentGraph, list[idx].to)],
              NumCell(list[idx].weight)>>]

\* rows of the Dijkstra branch; a queued dist is always finite here
dijkstraRows(w) ==
    LET queue == w.traversalState.queue
    IN IF Len(queue) = 0 THEN <<EmptyRow>>
       ELSE [idx \in 1..Len(queue) |->
               <<NumCell(idx), labelCell(w.currentGraph, queue[idx].id), NumCell(queue[idx].dist)>>]

updateWorklist(world) ==
    Only({(
    LET ts  == w.traversalState
        dom == w.worklistDom
    IN IF ts = Null THEN [w EXCEPT !.worklistDom.display = "none"]
       ELSE LET algo == getAlgorithmConfig(ts.type) IN
            CASE algo.id = "dfs" ->
                   [w EXCEPT !.worklistDom =
                       [panelFor(dom, "Stack (DFS)", "Position (Top -> Bottom)", "Node", "Edge Weight")
                           EXCEPT !.rows = @ \o dfsRows(w)]]
              [] algo.id = "bfs" ->
                   [w EXCEPT !.worklistDom =
                       [panelFor(dom, "Queue (BFS)", "Position (Front -> Back)", "Node", "Edge Weight")
                           EXCEPT !.rows = @ \o bfsRows(w)]]
              [] algo.id = "prim" ->
                   [w EXCEPT !.worklistDom =
                       [panelFor(dom, "Priority Queue (Prim)", "Order (Next -> Later)", "Edge", "Weight")
                           EXCEPT !.rows = @ \o edgeRows(w, ts.queue)]]
              [] algo.id = "kruskal" ->
                   [w EXCEPT !.worklistDom =
                       [panelFor(dom, "Edges (Kruskal order)", "Order (Next -> Later)", "Edge", "Weight")
                           EXCEPT !.rows = @ \o edgeRows(w, ts.remainingEdges)]]
              [] algo.id = "dijkstra" ->
                   [w EXCEPT !.worklistDom =
                       [panelFor(dom, "Priority Queue (Dijkstra)", "Order (Next -> Later)", "Node", "Distance")
                           EXCEPT !.rows = @ \o dijkstraRows(w)]]
              [] OTHER -> [w EXCEPT !.worklistDom = [dom EXCEPT !.rows = <<>>, !.display = "none"]]
    ) : w \in {world}})

\* The panel as the page loads it, before any script wrote to it.
InitialDom ==
    [display |-> "none", title |-> "", col1 |-> "", col2 |-> "", col3 |-> "",
     col3display |-> "", rows |-> <<>>]

----------------------------------------------------------------------------
(* Depth-first search.  traversalState.graph holds the reference of the    *)
(* Graph object, graph.ref.                                                *)

startDFSTraversal(w, graph) ==
    LET startNode == startNodeOf(graph)
        ts == [type           |-> "dfs",
               graph          |-> graph.ref,
               stack          |-> <<startNode>>,
               stackSet       |-> {startNode},
               visited        |-> {},
               adjacency      |-> buildAdjacency(graph),
               parents        |-> EmptyMap,
               edgesTraversed |-> {},
               finished       |-> FALSE]
    IN updateWorklist(logStatus([w EXCEPT !.traversalState = ts, !.history.visitLog = <<>>],
                                Msg("Starting DFS from", <<labelOf(graph, startNode)>>)))

\* for (let i = neighbors.length - 1; i >= 0; i--): the body for index i (from 1), then the rest
RECURSIVE dfsPushLoop(_, _, _, _)
RECURSIVE dfsPushLoop_ascending(_, _, _, _)

\* Mutant of dfsPushLoop: the neighbours are pushed from the first to the last.
dfsPushLoop_ascending(state, neighbors, i, nodeId) ==
    IF i < 1 THEN state
    ELSE LET n == neighbors[Len(neighbors) - i + 1]
         IN IF n \notin state.visited /\ n \notin state.stackSet
            THEN dfsPushLoop_ascending(
                     [state EXCEPT !.stack = Append(@, n),
                                   !.stackSet = @ \cup {n},
                                   !.parents = IF MapHas(@, n) THEN @ ELSE MapSet(@, n, nodeId)],
                     neighbors, i - 1, nodeId)
            ELSE dfsPushLoop_ascending(state, neighbors, i - 1, nodeId)

\* Mutant of dfsPushLoop: the loop stops at i > 0 and never looks at neighbors[0].
dfsPushLoop_skipsFirst(state, neighbors, i, nodeId) ==
    Only({(
    IF i < 2 THEN ts
    ELSE LET n == neighbors[i]
         IN IF n \notin ts.visited /\ n \notin ts.stackSet
            THEN dfsPushLoop([ts EXCEPT !.stack = Append(@, n),
                                        !.stackSet = @ \cup {n},
                                        !.parents = IF MapHas(@, n) THEN @ ELSE MapSet(@, n, nodeId)],
                             neighbors, i - 1, nodeId)
            ELSE dfsPushLoop(ts, neighbors, i - 1, nodeId)
    ) : ts \in {state}})

\* Mutant of dfsPushLoop: the stackSet test is left out, a pending neighbour is
\* pushed again.
dfsPushLoop_pushesPending(state, neighbors, i, nodeId) ==
    Only({(
    IF i < 1 THEN ts
    ELSE LET n == neighbors[i]
         IN IF n \notin ts.visited
            THEN dfsPushLoop([ts EXCEPT !.stack = Append(@, n),
                                        !.stackSet = @ \cup {n},
                                        !.parents = IF MapHas(@, n) THEN @ ELSE MapSet(@, n, nodeId)],
                             neighbors, i - 1, nodeId)
            ELSE dfsPushLoop(ts, neighbors, i - 1, nodeId)
    ) : ts \in {state}})

dfsPushLoop(state, adjacent, index, fromNode) ==
    Only({(
    IF i < 1 THEN ts
    ELSE LET n == neighbors[i]
         IN IF n \notin ts.visited /\ n \notin ts.stackSet
            THEN dfsPushLoop([ts EXCEPT !.stack = Append(@, n),
                                        !.stackSet = @ \cup {n},
                                        !.parents = IF MapHas(@, n) THEN @ ELSE MapSet(@, n, nodeId)],
                             neighbors, i - 1, nodeId)
            ELSE dfsPushLoop(ts, neighbors, i - 1, nodeId)
    ) : ts \in {state}, neighbors \in {adjacent}, i \in {index}, nodeId \in {fromNode}})

stepDFS(world) ==
    Only({(
    LET ts == w.traversalState
    IN IF Len(ts.stack) = 0
       THEN updateWorklist(logStatus([w EXCEPT !.traversalState.finished = TRUE],
                                     Msg("DFS complete.", <<>>)))
       ELSE LET nodeId == ts.stack[Len(ts.stack)]
                popped == [ts EXCEPT !.stack = Popped(@), !.stackSet = @ \ {nodeId}]
            IN IF nodeId \in popped.visited
               THEN updateWorklist(logStatus([w EXCEPT !.traversalState = popped],
                        Msg("Skipping already visited", <<labelOf(w.currentGraph, nodeId)>>)))
               ELSE LET marked == [popped EXCEPT
                                      !.visited = @ \cup {nodeId},
                                      !.edgesTraversed =
                                          IF MapHas(popped.parents, nodeId)
                                          THEN @ \cup {canonicalEdgeKey(popped.parents[nodeId], nodeId)}
                                          ELSE @]
                        neighbors == adjacencyGet(marked.adjacency, nodeId)
                        pushed == dfsPushLoop(marked, neighbors, Len(neighbors), nodeId)
                    IN updateWorklist(logStatus(
                           [w EXCEPT !.traversalState = pushed, !.history.visitLog = Append(@, nodeId)],
                           Msg("Visited", <<labelOf(w.currentGraph, nodeId)>>)))
    ) : w \in {world}})

----------------------------------------------------------------------------
(* Breadth-first search.                                                   *)

startBFSTraversal(w, graph) ==
    LET startNode == startNodeOf(graph)
        ts == [type           |-> "bfs",
               graph          |-> graph.ref,
               queue          |-> <<startNode>>,
               queueSet       |-> {startNode},
               visited        |-> {},
               adjacency      |-> buildAdjacency(graph),
               parents        |-> EmptyMap,
               edgesTraversed |-> {},
               edgesMST       |-> {},
               finished       |-> FALSE]
    IN updateWorklist(logStatus([w EXCEPT !.traversalState = ts, !.history.visitLog = <<>>],
                                Msg("Starting BFS from", <<labelOf(graph, startNode)>>)))

\* for (const n of neighbors): the body for index i (from 1), then the rest
RECURSIVE bfsPushLoop(_, _, _, _)
\* Mutant of bfsPushLoop: a neighbour is marked visited when it is enqueued.
bfsPushLoop_marksOnEnqueue(state, neighbors, i, nodeId) ==
    IF i > Len(neighbors) THEN state
    ELSE LET n == neighbors[i]
         IN IF n \notin state.visited /\ n \notin state.queueSet
            THEN bfsPushLoop([state EXCEPT !.queue = Append(@, n),
                                           !.queueSet = @ \cup {n},
                                           !.visited = @ \cup {n},
                                           !.parents = IF MapHas(@, n) THEN @ ELSE MapSet(@, n, nodeId)],
                             neighbors, i + 1, nodeId)
            ELSE bfsPushLoop(state, neighbors, i + 1, nodeId)

bfsPushLoop(state, adjacent, index, fromNode) ==
    Only({(
    IF i > Len(neighbors) THEN ts
    ELSE LET n == neighbors[i]
         IN IF n \notin ts.visited /\ n \notin ts.queueSet
            THEN bfsPushLoop([ts EXCEPT !.queue = Append(@, n),
                                        !.queueSet = @ \cup {n},
                                        !.parents = IF MapHas(@, n) THEN @ ELSE MapSet(@, n, nodeId)],
                             neighbors, i + 1, nodeId)
            ELSE bfsPushLoop(ts, neighbors, i + 1, nodeId)
    ) : ts \in {state}, neighbors \in {adjacent}, i \in {index}, nodeId \in {fromNode}})

\* Mutant of stepBFS: the node is taken from the back of the queue.
stepBFS_takesLast(world) ==
    Only({(
    LET ts == w.traversalState
    IN IF Len(ts.queue) = 0
       THEN updateWorklist(logStatus([w EXCEPT !.traversalState.finished = TRUE],
                                     Msg("BFS complete.", <<>>)))
       ELSE LET nodeId == ts.queue[Len(ts.queue)]
                shifted == [ts EXCEPT !.queue = Popped(@), !.queueSet = @ \ {nodeId}]
            IN IF nodeId \in shifted.visited
               THEN updateWorklist(logStatus([w EXCEPT !.traversalState = shifted],
                        Msg("Skipping already visited", <<labelOf(w.currentGraph, nodeId)>>)))
               ELSE LET marked == [shifted EXCEPT
                                      !.visited = @ \cup {nodeId},
                                      !.edgesTraversed =
                                          IF MapHas(shifted.parents, nodeId)
                                          THEN @ \cup {canonicalEdgeKey(shifted.parents[nodeId], nodeId)}
                                          ELSE @]
                        neighbors == adjacencyGet(marked.adjacency, nodeId)
                        pushed == bfsPushLoop(marked, neighbors, 1, nodeId)
                    IN updateWorklist(logStatus(
                           [w EXCEPT !.traversalState = pushed, !.history.visitLog = Append(@, nodeId)],
                           Msg("Visited", <<labelOf(w.currentGraph, nodeId)>>)))
    ) : w \in {world}})

stepBFS(world) ==
    Only({(
    LET ts == w.traversalState
    IN IF Len(ts.queue) = 0
       THEN updateWorklist(logStatus([w EXCEPT !.traversalState.finished = TRUE],
                                     Msg("BFS complete.", <<>>)))
       ELSE LET nodeId == ts.queue[1]
                shifted == [ts EXCEPT !.queue = Shifted(@), !.queueSet = @ \ {nodeId}]
            IN IF nodeId \in shifted.visited
               THEN updateWorklist(logStatus([w EXCEPT !.traversalState = shifted],
                        Msg("Skipping already visited", <<labelOf(w.currentGraph, nodeId)>>)))
               ELSE LET marked == [shifted EXCEPT
                                      !.visited = @ \cup {nodeId},
                                      !.edgesTraversed =
                                          IF MapHas(shifted.parents, nodeId)
                                          THEN @ \cup {canonicalEdgeKey(shifted.parents[nodeId], nodeId)}
                                          ELSE @]
                        neighbors == adjacencyGet(marked.adjacency, nodeId)
                        pushed == bfsPushLoop(marked, neighbors, 1, nodeId)
                    IN updateWorklist(logStatus(
                           [w EXCEPT !.traversalState = pushed, !.history.visitLog = Append(@, nodeId)],
                           Msg("Visited", <<labelOf(w.currentGraph, nodeId)>>)))
    ) : w \in {world}})

----------------------------------------------------------------------------
(* Dijkstra.  Infinity is a number above every path weight the model can   *)
(* build; sums with it stay Infinity, as IEEE addition does.               *)

Infinity == 1000000

numAdd(a, b) == IF a = Infinity \/ b = Infinity THEN Infinity ELSE a + b

startDijkstraTraversal(w, graph) ==
    LET startNode == startNodeOf(graph)
        distances == MapSet([id \in NodeIds(graph) |-> Infinity], startNode, 0)
        ts == [type           |-> "dijkstra",
               graph          |-> graph.ref,
               visited        |-> {},
               distances      |-> distances,
               previous       |-> EmptyMap,
               queue          |-> <<[id |-> startNode, dist |-> 0]>>,
               adjacency      |-> buildWeightedAdjacency(graph),
               currentNode    |-> Null,
               edgesTraversed |-> {},
               edgesMST       |-> {},
               finished       |-> FALSE]
    IN updateWorklist(logStatus([w EXCEPT !.traversalState = ts, !.history.visitLog = <<>>],
                                Msg("Starting Dijkstra from", <<labelOf(graph, startNode)>>)))

\* for (const neighbor of neighbors): the body for index i (from 1), then the rest.
\* acc is [ts, updates]: the state and the `label=candidate` entries logged so far.
RECURSIVE dijkstraRelaxLoop(_, _, _, _, _)
\* Mutant of dijkstraRelaxLoop: the candidate is stored without comparing it to
\* the distance already known.
dijkstraRelaxLoop_alwaysAssigns(sofar, graph, neighbors, i, nodeId) ==
    IF i > Len(neighbors) THEN sofar
    ELSE LET ts        == sofar.ts
             neighbor  == neighbors[i]
             candidate == numAdd(ts.distances[nodeId], neighbor.weight)
         IN IF neighbor.to \in ts.visited
            THEN dijkstraRelaxLoop(sofar, graph, neighbors, i + 1, nodeId)
            ELSE dijkstraRelaxLoop(
                     [ts |-> [ts EXCEPT
                                !.distances = MapSet(@, neighbor.to, candidate),
                                !.previous = MapSet(@, neighbor.to, nodeId),
                                !.queue = enqueueByDistance(@, [id |-> neighbor.to, dist |-> candidate]),
                                !.edgesTraversed = @ \cup {canonicalEdgeKey(nodeId, neighbor.to)}],
                      updates |-> sofar.updates \o <<labelOf(graph, neighbor.to), candidate>>],
                     graph, neighbors, i + 1, nodeId)

dijkstraRelaxLoop(sofar, theGraph, adjacent, index, fromNode) ==
    Only({(
    IF i > Len(neighbors) THEN acc
    ELSE LET ts        == acc.ts
             neighbor  == neighbors[i]
             candidate == numAdd(ts.distances[nodeId], neighbor.weight)
         IN IF neighbor.to \in ts.visited
            THEN dijkstraRelaxLoop(acc, graph, neighbors, i + 1, nodeId)
            ELSE IF candidate < ts.distances[neighbor.to]
            THEN dijkstraRelaxLoop(
                     [ts |-> [ts EXCEPT
                                !.distances = MapSet(@, neighbor.to, candidate),
                                !.previous = MapSet(@, neighbor.to, nodeId),
                                !.queue = enqueueByDistance(@, [id |-> neighbor.to, dist |-> candidate]),
                                !.edgesTraversed = @ \cup {canonicalEdgeKey(nodeId, neighbor.to)}],
                      updates |-> acc.updates \o <<labelOf(graph, neighbor.to), candidate>>],
                     graph, neighbors, i + 1, nodeId)
            ELSE dijkstraRelaxLoop(acc, graph, neighbors, i + 1, nodeId)
    ) : acc \in {sofar}, neighbors \in {adjacent}, graph \in {theGraph}, i \in {index}, nodeId \in {fromNode}})

\* Mutant of stepDijkstra: an entry of a settled node ends the step (return for
\* continue), as in stepPrim.
stepDijkstra_returnsOnStale(world) ==
    Only({(
    LET ts == w.traversalState
    IN IF Len(ts.queue) > 0
       THEN LET node    == ts.queue[1]
                shifted == [ts EXCEPT !.queue = Shifted(@)]
            IN IF node.id \in shifted.visited
               THEN updateWorklist([w EXCEPT !.traversalState = shifted])
               ELSE LET marked == [shifted EXCEPT !.currentNode = [id |-> node.id],
                                                  !.visited = @ \cup {node.id}]
                        neighbors == adjacencyGet(marked.adjacency, node.id)
                        nodeLabel == labelOf(w.currentGraph, node.id)
                    IN Only({updateWorklist(logStatus(
                           [w EXCEPT !.traversalState = relaxed.ts, !.history.visitLog = Append(@, node.id)],
                           IF Len(relaxed.updates) > 0
                           THEN Msg("Processed; updated", <<nodeLabel>> \o relaxed.updates)
                           ELSE Msg("Processed; no updates.", <<nodeLabel>>))) :
                        relaxed \in {dijkstraRelaxLoop([ts |-> marked, updates |-> <<>>],
                                                       w.currentGraph, neighbors, 1, node.id)}})
       ELSE updateWorklist(logStatus(
                [w EXCEPT !.traversalState.finished = TRUE, !.traversalState.currentNode = Null],
                Msg("Dijkstra complete. Shortest paths computed.", <<>>)))
    ) : w \in {world}})

\* stepDijkstra: the while loop drops entries of settled nodes, settles the first
\* other one and returns; an exhausted queue finishes the traversal.
RECURSIVE stepDijkstra(_)
stepDijkstra(world) ==
    Only({(
    LET ts == w.traversalState
    IN IF Len(ts.queue) > 0
       THEN LET node    == ts.queue[1]
                shifted == [ts EXCEPT !.queue = Shifted(@)]
            IN IF node.id \in shifted.visited
               THEN stepDijkstra([w EXCEPT !.traversalState = shifted])
               ELSE LET marked == [shifted EXCEPT !.currentNode = [id |-> node.id],
                                                  !.visited = @ \cup {node.id}]
                        neighbors == adjacencyGet(marked.adjacency, node.id)
                        nodeLabel == labelOf(w.currentGraph, node.id)
                    IN Only({updateWorklist(logStatus(
                           [w EXCEPT !.traversalState = relaxed.ts, !.history.visitLog = Append(@, node.id)],
                           IF Len(relaxed.updates) > 0
                           THEN Msg("Processed; updated", <<nodeLabel>> \o relaxed.updates)
                           ELSE Msg("Processed; no updates.", <<nodeLabel>>))) :
                        relaxed \in {dijkstraRelaxLoop([ts |-> marked, updates |-> <<>>],
                                                       w.currentGraph, neighbors, 1, node.id)}})
       ELSE updateWorklist(logStatus(
                [w EXCEPT !.traversalState.finished = TRUE, !.traversalState.currentNode = Null],
                Msg("Dijkstra complete. Shortest paths computed.", <<>>)))
    ) : w \in {world}})

----------------------------------------------------------------------------
(* Prim.                                                                   *)

\* for (const edge of adjacency.get(startNode) || []): enqueue each edge of the start node
RECURSIVE primSeedLoop(_, _, _, _)
primSeedLoop(list, adjacent, index, start) ==
    Only({(
    IF i > Len(neighbors) THEN queue
    ELSE primSeedLoop(enqueueEdgeByWeight(queue, [from |-> startNode, to |-> neighbors[i].to,
                                                  weight |-> neighbors[i].weight]),
                      neighbors, i + 1, startNode)
    ) : queue \in {list}, neighbors \in {adjacent}, i \in {index}, startNode \in {start}})

startPrimTraversal(w, graph) ==
    LET startNode == startNodeOf(graph)
        adjacency == buildWeightedAdjacency(graph)
        ts == [type           |-> "prim",
               graph          |-> graph.ref,
               visited        |-> {startNode},
               adjacency      |-> adjacency,
               queue          |-> primSeedLoop(<<>>, adjacencyGet(adjacency, startNode), 1, startNode),
               edgesTraversed |-> {},
               edgesMST       |-> {},
               finished       |-> FALSE]
    IN updateWorklist(logStatus([w EXCEPT !.traversalState = ts, !.history.visitLog = <<startNode>>],
                                Msg("Starting Prim from", <<labelOf(graph, startNode)>>)))

\* for (const n of neighbors): enqueue the edges to the nodes not yet in the tree
RECURSIVE primPushLoop(_, _, _, _)
\* Mutant of primPushLoop: the test is inverted, edges to tree nodes are enqueued.
primPushLoop_pushesVisited(state, neighbors, i, from) ==
    IF i > Len(neighbors) THEN state
    ELSE LET n == neighbors[i]
         IN IF n.to \in state.visited
            THEN primPushLoop([state EXCEPT !.queue = enqueueEdgeByWeight(@,
                                   [from |-> from, to |-> n.to, weight |-> n.weight])],
                              neighbors, i + 1, from)
            ELSE primPushLoop(state, neighbors, i + 1, from)

primPushLoop(state, adjacent, index, fromNode) ==
    Only({(
    IF i > Len(neighbors) THEN ts
    ELSE LET n == neighbors[i]
         IN IF n.to \notin ts.visited
            THEN primPushLoop([ts EXCEPT !.queue = enqueueEdgeByWeight(@,
                                   [from |-> from, to |-> n.to, weight |-> n.weight])],
                              neighbors, i + 1, from)
            ELSE primPushLoop(ts, neighbors, i + 1, from)
    ) : ts \in {state}, neighbors \in {adjacent}, i \in {index}, from \in {fromNode}})

\* Mutant of stepPrim: a step that discards the last queue entry sets finished.
stepPrim_finishesOnDiscard(world) ==
    Only({(
    LET ts == w.traversalState
    IN IF Len(ts.queue) = 0
       THEN updateWorklist(logStatus([w EXCEPT !.traversalState.finished = TRUE],
                                     Msg("Prim complete. MST built.", <<>>)))
       ELSE LET edge    == ts.queue[1]
                shifted == [ts EXCEPT !.queue = Shifted(@)]
            IN IF edge.to \in shifted.visited
               THEN updateWorklist([w EXCEPT !.traversalState =
                        [shifted EXCEPT !.finished = (Len(shifted.queue) = 0)]])
               ELSE LET marked == [shifted EXCEPT
                                      !.visited = @ \cup {edge.to},
                                      !.edgesMST = @ \cup {canonicalEdgeKey(edge.from, edge.to)}]
                        neighbors == adjacencyGet(marked.adjacency, edge.to)
                        pushed == primPushLoop(marked, neighbors, 1, edge.to)
                    IN updateWorklist(logStatus(
                           [w EXCEPT !.traversalState = pushed, !.history.visitLog = Append(@, edge.to)],
                           Msg("Added edge to MST.",
                               <<labelOf(w.currentGraph, edge.from), labelOf(w.currentGraph, edge.to),
                                 edge.weight>>)))
    ) : w \in {world}})

stepPrim(world) ==
    Only({(
    LET ts == w.traversalState
    IN IF Len(ts.queue) = 0
       THEN updateWorklist(logStatus([w EXCEPT !.traversalState.finished = TRUE],
                                     Msg("Prim complete. MST built.", <<>>)))
       ELSE LET edge    == ts.queue[1]
                shifted == [ts EXCEPT !.queue = Shifted(@)]
            IN IF edge.to \in shifted.visited
               THEN updateWorklist([w EXCEPT !.traversalState = shifted])
               ELSE LET marked == [shifted EXCEPT
                                      !.visited = @ \cup {edge.to},
                                      !.edgesMST = @ \cup {canonicalEdgeKey(edge.from, edge.to)}]
                        neighbors == adjacencyGet(marked.adjacency, edge.to)
                        pushed == primPushLoop(marked, neighbors, 1, edge.to)
                    IN updateWorklist(logStatus(
                           [w EXCEPT !.traversalState = pushed, !.history.visitLog = Append(@, edge.to)],
                           Msg("Added edge to MST.",
                               <<labelOf(w.currentGraph, edge.from), labelOf(w.currentGraph, edge.to),
                                 edge.weight>>)))
    ) : w \in {world}})

----------------------------------------------------------------------------
(* Kruskal.                                                                *)

\* Mutant of startKruskalTraversal: the edges are not sorted by weight.
startKruskalTraversal_unsorted(w, graph) ==
    LET ts == [type           |-> "kruskal",
               graph          |-> graph.ref,
               remainingEdges |-> graph.edges,
               parent         |-> [id \in NodeIds(graph) |-> id],
               rank           |-> [id \in NodeIds(graph) |-> 0],
               edgesMST       |-> {},
               edgesTraversed |-> {},
               finished       |-> FALSE]
    IN updateWorklist(logStatus([w EXCEPT !.traversalState = ts, !.history.visitLog = <<>>],
                                Msg("Starting Kruskal; edges sorted by weight.", <<>>)))

startKruskalTraversal(w, graph) ==
    LET edges == StableSortBy(graph.edges, [k \in 1..Len(graph.edges) |-> graph.edges[k].weight])
        ts == [type           |-> "kruskal",
               graph          |-> graph.ref,
               remainingEdges |-> edges,
               parent         |-> [id \in NodeIds(graph) |-> id],
               rank           |-> [id \in NodeIds(graph) |-> 0],
               edgesMST       |-> {},
               edgesTraversed |-> {},
               finished       |-> FALSE]
    IN updateWorklist(logStatus([w EXCEPT !.traversalState = ts, !.history.visitLog = <<>>],
                                Msg("Starting Kruskal; edges sorted by weight.", <<>>)))

\* Mutant of findRoot: compression points the node at itself instead of at the root.
RECURSIVE findRoot_detaches(_, _)
findRoot_detaches(node, parentMap) ==
    Only({(
    IF parent[nodeId] # nodeId
    THEN LET up == findRoot_detaches(parent[nodeId], parent)
             compressed == [up.parent EXCEPT ![nodeId] = nodeId]
         IN [root |-> compressed[nodeId], parent |-> compressed]
    ELSE [root |-> parent[nodeId], parent |-> parent]
    ) : parent \in {parentMap}, nodeId \in {node}})

\* findRoot(nodeId, parent): [root, parent], parent being the map after path compression
RECURSIVE findRoot(_, _)
findRoot(node, parentMap) ==
    Only({(
    IF parent[nodeId] # nodeId
    THEN LET up == findRoot(parent[nodeId], parent)
             compressed == [up.parent EXCEPT ![nodeId] = up.root]
         IN [root |-> compressed[nodeId], parent |-> compressed]
    ELSE [root |-> parent[nodeId], parent |-> parent]
    ) : parent \in {parentMap}, nodeId \in {node}})

\* Mutant of unionSets: the roots are joined and true returned even when equal.
unionSets_noRootCheck(a, b, parent, rank) ==
    LET fa    == findRoot(a, parent)
        fb    == findRoot(b, fa.parent)
        rootA == fa.root
        rootB == fb.root
        rankA == rank[rootA]
        rankB == rank[rootB]
    IN IF rankA < rankB
       THEN [added |-> TRUE, parent |-> [fb.parent EXCEPT ![rootA] = rootB], rank |-> rank]
       ELSE IF rankA > rankB
       THEN [added |-> TRUE, parent |-> [fb.parent EXCEPT ![rootB] = rootA], rank |-> rank]
       ELSE [added |-> TRUE, parent |-> [fb.parent EXCEPT ![rootB] = rootA],
             rank |-> [rank EXCEPT ![rootA] = rankA + 1]]

\* unionSets(a, b, parent, rank): [added, parent, rank]
unionSets(nodeA, nodeB, parentMap, rankMap) ==
    Only({(
    LET fa    == findRoot(a, parent)
        fb    == findRoot(b, fa.parent)
        rootA == fa.root
        rootB == fb.root
        rankA == rank[rootA]
        rankB == rank[rootB]
    IN IF rootA = rootB THEN [added |-> FALSE, parent |-> fb.parent, rank |-> rank]
       ELSE IF rankA < rankB
       THEN [added |-> TRUE, parent |-> [fb.parent EXCEPT ![rootA] = rootB], rank |-> rank]
       ELSE IF rankA > rankB
       THEN [added |-> TRUE, parent |-> [fb.parent EXCEPT ![rootB] = rootA], rank |-> rank]
       ELSE [added |-> TRUE, parent |-> [fb.parent EXCEPT ![rootB] = rootA],
             rank |-> [rank EXCEPT ![rootA] = rankA + 1]]
    ) : parent \in {parentMap}, rank \in {rankMap}, a \in {nodeA}, b \in {nodeB}})

\* Mutant of stepKruskal: the traversal ends only when no edge remains, not as
\* soon as edgesMST holds nodeCount - 1 edges.
stepKruskal_untilNoEdges(world) ==
    Only({(
    LET ts == w.traversalState
    IN IF Len(ts.remainingEdges) = 0
       THEN updateWorklist(logStatus([w EXCEPT !.traversalState.finished = TRUE],
                                     Msg("Kruskal complete. MST built or no more edges.", <<>>)))
       ELSE LET edge  == ts.remainingEdges[1]
                key   == canonicalEdgeKey(edge.from, edge.to)
                args  == <<labelOf(w.currentGraph, edge.from), labelOf(w.currentGraph, edge.to),
                           edge.weight>>
            IN Only({updateWorklist(logStatus(
                        [w EXCEPT !.traversalState =
                            [ts EXCEPT !.remainingEdges = Shifted(@),
                                       !.parent = u.parent,
                                       !.rank = u.rank,
                                       !.edgesMST = IF u.added THEN @ \cup {key} ELSE @,
                                       !.edgesTraversed = @ \cup {key}]],
                        IF u.added THEN Msg("Added edge to MST.", args)
                        ELSE Msg("Skipped edge to avoid cycle.", args))) :
                     u \in {unionSets(edge.from, edge.to, ts.parent, ts.rank)}})
    ) : w \in {world}})

\* Mutant of stepKruskal: an edge that would close a cycle is dropped without
\* being added to edgesTraversed.
stepKruskal_rejectedUntraversed(world) ==
    Only({(
    LET ts == w.traversalState
    IN IF Len(ts.remainingEdges) = 0 \/ Cardinality(ts.edgesMST) >= Len(w.currentGraph.nodes) - 1
       THEN updateWorklist(logStatus([w EXCEPT !.traversalState.finished = TRUE],
                                     Msg("Kruskal complete. MST built or no more edges.", <<>>)))
       ELSE LET edge  == ts.remainingEdges[1]
                key   == canonicalEdgeKey(edge.from, edge.to)
                args  == <<labelOf(w.currentGraph, edge.from), labelOf(w.currentGraph, edge.to),
                           edge.weight>>
            IN Only({updateWorklist(logStatus(
                        [w EXCEPT !.traversalState =
                            [ts EXCEPT !.remainingEdges = Shifted(@),
                                       !.parent = u.parent,
                                       !.rank = u.rank,
                                       !.edgesMST = IF u.added THEN @ \cup {key} ELSE @,
                                       !.edgesTraversed = IF u.added THEN @ \cup {key} ELSE @]],
                        IF u.added THEN Msg("Added edge to MST.", args)
                        ELSE Msg("Skipped edge to avoid cycle.", args))) :
                     u \in {unionSets(edge.from, edge.to, ts.parent, ts.rank)}})
    ) : w \in {world}})

stepKruskal(world) ==
    Only({(
    LET ts == w.traversalState
    IN IF Len(ts.remainingEdges) = 0 \/ Cardinality(ts.edgesMST) >= Len(w.currentGraph.nodes) - 1
       THEN updateWorklist(logStatus([w EXCEPT !.traversalState.finished = TRUE],
                                     Msg("Kruskal complete. MST built or no more edges.", <<>>)))
       ELSE LET edge  == ts.remainingEdges[1]
                key   == canonicalEdgeKey(edge.from, edge.to)
                args  == <<labelOf(w.currentGraph, edge.from), labelOf(w.currentGraph, edge.to),
                           edge.weight>>
            IN Only({updateWorklist(logStatus(
                        [w EXCEPT !.traversalState =
                            [ts EXCEPT !.remainingEdges = Shifted(@),
                                       !.parent = u.parent,
                                       !.rank = u.rank,
                                       !.edgesMST = IF u.added THEN @ \cup {key} ELSE @,
                                       !.edgesTraversed = @ \cup {key}]],
                        IF u.added THEN Msg("Added edge to MST.", args)
                        ELSE Msg("Skipped edge to avoid cycle.", args))) :
                     u \in {unionSets(edge.from, edge.to, ts.parent, ts.rank)}})
    ) : w \in {world}})

----------------------------------------------------------------------------
(* Starting and stepping the selected algorithm.                           *)

\* startTraversal(algo, graph)
startTraversal(world, algo, graph) ==
    Only({(
    CASE algo.id = "dfs"      -> startDFSTraversal(w, graph)
      [] algo.id = "bfs"      -> startBFSTraversal(w, graph)
      [] algo.id = "dijkstra" -> startDijkstraTraversal(w, graph)
      [] algo.id = "prim"     -> startPrimTraversal(w, graph)
      [] algo.id = "kruskal"  -> startKruskalTraversal(w, graph)
      [] OTHER -> updateWorklist(logStatus([w EXCEPT !.traversalState = Null],
                                           MsgFor("Step not implemented yet.", <<>>, algo.label)))
    ) : w \in {[world EXCEPT !.history.started =
                              IF world.traversalState = Null THEN "first" ELSE "again"]}})

\* Mutant of needsStart: a traversal of another algorithm is not taken for stale.
needsStart_ignoresType(w, algo) ==
    \/ w.traversalState = Null
    \/ w.traversalState.graph # w.currentGraph.ref

\* !traversalState || traversalState.graph !== currentGraph || traversalState.type !== algo.id
needsStart(w, algo) ==
    \/ w.traversalState = Null
    \/ w.traversalState.graph # w.currentGraph.ref
    \/ w.traversalState.type # algo.id

\* The dispatch at the end of stepTraversal, on an unfinished traversal.
stepByType(world, algo) ==
    Only({(
    LET counted == [w EXCEPT !.history.stepCalls = @ + 1]
    IN CASE w.traversalState.type = "dfs"      -> stepDFS(counted)
         [] w.traversalState.type = "bfs"      -> stepBFS(counted)
         [] w.traversalState.type = "dijkstra" -> stepDijkstra(counted)
         [] w.traversalState.type = "prim"     -> stepPrim(counted)
         [] w.traversalState.type = "kruskal"  -> stepKruskal(counted)
         [] OTHER -> logStatus(w, MsgFor("Step not implemented yet.", <<>>, algo.label))
    ) : w \in {world}})

\* Mutant of stepTraversal: a finished traversal is started afresh like a stale one.
stepTraversal_restartsFinished(world, sel) ==
    Only({(
    IF w.currentGraph = Null THEN logStatus(w, Msg("Generate a graph first.", <<>>))
    ELSE LET algo    == getAlgorithmConfig(sel)
             restart == needsStart(w, algo) \/ w.traversalState.finished
         IN Only({(
            IF restart /\ (w1.traversalState = Null \/ w1.traversalState.type # algo.id) THEN w1
            ELSE IF w1.traversalState.finished THEN w1
            ELSE stepByType(w1, algo)
            ) : w1 \in {IF restart THEN startTraversal(w, algo, w.currentGraph) ELSE w}})
    ) : w \in {world}})

\* stepTraversal(), sel being algoSelect.value
stepTraversal(world, sel) ==
    Only({(
    IF w.currentGraph = Null THEN logStatus(w, Msg("Generate a graph first.", <<>>))
    ELSE LET algo    == getAlgorithmConfig(sel)
             restart == needsStart(w, algo)
         IN Only({(
            IF restart /\ (w1.traversalState = Null \/ w1.traversalState.type # algo.id) THEN w1
            ELSE IF w1.traversalState.finished THEN w1
            ELSE stepByType(w1, algo)
            ) : w1 \in {IF restart THEN startTraversal(w, algo, w.currentGraph) ELSE w}})
    ) : w \in {world}})


\* Mutant of stopAutoRun: clearInterval is not called, the interval stays scheduled.
stopAutoRun_noClearInterval(world) ==
    IF world.autoRunInterval # Null THEN [world EXCEPT !.autoRunInterval = Null] ELSE world

\* stopAutoRun(): clearInterval takes the handle out of the scheduler
stopAutoRun(world) ==
    Only({(
    IF w.autoRunInterval # Null
    THEN [w EXCEPT !.timers = @ \ {w.autoRunInterval.handle}, !.autoRunInterval = Null,
                   !.history.cleared = IF w.history.ticked THEN "ticked" ELSE "fresh"]
    ELSE w
    ) : w \in {world}})

\* setInterval returns a handle no live interval has; handles are positive.
newHandle(live) == CHOOSE h \in 1..(Cardinality(live) + 1) :
                       h \notin live /\ \A m \in 1..(h - 1) : m \in live

\* Mutant of runTraversal: stopAutoRun() is not called before the new interval is set.
runTraversal_keepsOldInterval(world, sel) ==
    Only({(
    IF w.currentGraph = Null THEN logStatus(w, Msg("Generate a graph first.", <<>>))
    ELSE LET algo    == getAlgorithmConfig(sel)
             restart == needsStart(w, algo)
         IN Only({(
            IF restart /\ (w2.traversalState = Null \/ w2.traversalState.type # algo.id) THEN w2
            ELSE LET h == newHandle(w2.timers)
                 IN [w2 EXCEPT !.autoRunInterval = [handle |-> h], !.timers = @ \cup {h},
                               !.history.ticked = FALSE]
            ) : w2 \in {IF restart THEN startTraversal(w, algo, w.currentGraph) ELSE w}})
    ) : w \in {world}})

\* runTraversal(), sel being algoSelect.value
runTraversal(world, sel) ==
    Only({(
    IF w.currentGraph = Null THEN logStatus(w, Msg("Generate a graph first.", <<>>))
    ELSE LET w1      == stopAutoRun(w)
             algo    == getAlgorithmConfig(sel)
             restart == needsStart(w1, algo)
         IN Only({(
            IF restart /\ (w2.traversalState = Null \/ w2.traversalState.type # algo.id) THEN w2
            ELSE LET h == newHandle(w2.timers)
                 IN [w2 EXCEPT !.autoRunInterval = [handle |-> h], !.timers = @ \cup {h},
                               !.history.ticked = FALSE]
            ) : w2 \in {IF restart THEN startTraversal(w1, algo, w1.currentGraph) ELSE w1}})
    ) : w \in {world}})

\* Mutant of the interval callback: the test after the step is left out, so the
\* interval is stopped by the firing after the one that finished the traversal.
intervalCallback_stopsNextTick(world, sel) ==
    Only({(
    IF w.traversalState = Null \/ w.traversalState.finished THEN stopAutoRun(w)
    ELSE stepTraversal(w, sel)
    ) : w \in {world}})

\* The callback runTraversal hands to setInterval.
intervalCallback(world, sel) ==
    Only({(
    IF w.traversalState = Null \/ w.traversalState.finished THEN stopAutoRun(w)
    ELSE Only({(
            IF w1.traversalState # Null /\ w1.traversalState.finished THEN stopAutoRun(w1)
            ELSE w1
         ) : w1 \in {stepTraversal(w, sel)}})
    ) : w \in {world}})

----------------------------------------------------------------------------
(* Generating a graph.                                                     *)

NodeCountMin == 2
NodeCountMax == 25
NodeCountDefault == 8

NaN == [nan |-> TRUE]

\* What parseInt(nodeCountInput.value, 10) can give: NaN, or a number in or out of range.
ParsedNodeCounts == {NaN} \cup {[num |-> n] : n \in 1..(MaxNodes + 1)}

Min(a, b) == IF a <= b THEN a ELSE b
Max(a, b) == IF a >= b THEN a ELSE b

\* The node count of createGraphForSelection, never above MaxNodes.
clampNodeCount(parsedNodes) ==
    Min(MaxNodes,
        IF parsedNodes # NaN THEN Min(NodeCountMax, Max(NodeCountMin, parsedNodes.num))
        ELSE NodeCountDefault)

\* The node counts createGraphForSelection can arrive at.
NodeCountChoices == {clampNodeCount(parsedNodes) : parsedNodes \in ParsedNodeCounts}

EdgeChances == {ALGORITHMS[key].edgeChance : key \in AlgoKeys}

\* Graph.random for every call createGraphForSelection can make, computed once.
\* What Graph.random can return depends on edgeChance only through the outcomes
\* Math.random() < edgeChance can have.
RandomGraphs ==
    [nodeCount \in NodeCountChoices, coins \in {coinFlips(c) : c \in EdgeChances},
     withWeights \in BOOLEAN |->
        GraphRandom(nodeCount, CHOOSE c \in EdgeChances : coinFlips(c) = coins, withWeights)]

\* createGraphForSelection(): the {graph, algo} pairs it can return
createGraphForSelection(sel, checked, parsedNodes) ==
    LET algo        == getAlgorithmConfig(sel)
        nodeCount   == clampNodeCount(parsedNodes)
        withWeights == checked \/ algo.forceWeights
    IN {[graph |-> g, algo |-> algo] : g \in RandomGraphs[nodeCount, coinFlips(algo.edgeChance), withWeights]}

\* traversalState = null
discardTraversal(w) ==
    [w EXCEPT !.traversalState = Null,
              !.history.discarded = @ \/ w.traversalState # Null]

\* The reference of a new object: a name that none of the objects in live bears.
newRef(live) == CHOOSE r \in 0..Cardinality(live) : r \notin live /\ \A m \in 0..(r - 1) : m \in live

\* The Graph references a world holds besides currentGraph.
refsHeld(w) == IF w.traversalState = Null THEN {} ELSE {w.traversalState.graph}

\* Mutant of generateAndDraw: traversalState = null is left out, so the new Graph
\* is an object other than the one the traversal still holds.
generateAndDraw_keepsTraversal(world, made) ==
    Only({(
    LET w1      == stopAutoRun(w)
        graph   == [nodes       |-> made.graph.nodes,
                    edges       |-> made.graph.edges,
                    showWeights |-> made.graph.showWeights,
                    ref         |-> newRef(refsHeld(w1))]
        w2      == updateWorklist([w1 EXCEPT !.currentGraph = graph])
    IN logStatus(w2, MsgFor("Generated nodes and edges for",
                            <<Len(graph.nodes), Len(graph.edges)>>, made.algo.label))
    ) : w \in {world}})

\* generateAndDraw(), made being what createGraphForSelection returned.  The new
\* Graph replaces currentGraph, so its reference only has to differ from the ones
\* still held once traversalState = null has run.
generateAndDraw(world, made) ==
    Only({(
    LET w1      == stopAutoRun(w)
        dropped == discardTraversal(w1)
        graph   == [nodes       |-> made.graph.nodes,
                    edges       |-> made.graph.edges,
                    showWeights |-> made.graph.showWeights,
                    ref         |-> newRef(refsHeld(dropped))]
        w2      == updateWorklist([dropped EXCEPT !.currentGraph = graph])
    IN logStatus(w2, MsgFor("Generated nodes and edges for",
                            <<Len(graph.nodes), Len(graph.edges)>>, made.algo.label))
    ) : w \in {world}})

\* Everything createGraphForSelection can return for a selection, a checkbox
\* state and the node count the node-count field leads to.
GraphChoices ==
    [sel \in AlgoKeys, checked \in BOOLEAN, nodeCount \in NodeCountChoices |->
        createGraphForSelection(sel, checked, [num |-> nodeCount])]

\* The choices within the bounds of Spec.
PageGraphChoices ==
    [sel \in AlgoKeys, checked \in BOOLEAN, nodeCount \in NodeCountChoices |->
        {made \in GraphChoices[sel, checked, nodeCount] :
            /\ Len(made.graph.nodes) <= PageMaxNodes
            /\ \A k \in 1..Len(made.graph.edges) : made.graph.edges[k].weight <= PageMaxWeight}]

----------------------------------------------------------------------------
(* The handlers.  Each is one action: it runs to completion on the world   *)
(* it finds and leaves the world it returns.                               *)

\* The history an event leaves: the visit log is that of the traversal there is,
\* ticked that of the interval there is.
historyOf(w) ==
    [visitLog  |-> IF w.traversalState = Null THEN <<>> ELSE w.history.visitLog,
     stepCalls |-> w.history.stepCalls,
     ticked    |-> w.autoRunInterval # Null /\ w.history.ticked,
     cleared   |-> w.history.cleared,
     started   |-> w.history.started,
     discarded |-> w.history.discarded]

\* The world an event starts in: no step function has run in it yet.
Event == [World EXCEPT !.history.stepCalls = 0, !.history.cleared = "none",
                       !.history.started = "none", !.history.discarded = FALSE]

Apply(world) == \E w \in {world} :
    /\ currentGraph' = w.currentGraph
    /\ traversalState' = w.traversalState
    /\ autoRunInterval' = w.autoRunInterval
    /\ timers' = w.timers
    /\ status' = w.status
    /\ worklistDom' = w.worklistDom
    /\ history' = historyOf(w)

\* btnGenerate click
BtnGenerate ==
    /\ \E nodeCount \in NodeCountChoices :
         \E made \in PageGraphChoices[algoSelect, edgeWeightsChecked, nodeCount] :
            Apply(generateAndDraw(Event, made))
    /\ UNCHANGED <<algoSelect, edgeWeightsChecked>>

\* btnStep click
BtnStep ==
    /\ Apply(stepTraversal(stopAutoRun(Event), algoSelect))
    /\ UNCHANGED <<algoSelect, edgeWeightsChecked>>

\* btnRun click
BtnRun ==
    /\ Apply(runTraversal(Event, algoSelect))
    /\ UNCHANGED <<algoSelect, edgeWeightsChecked>>

\* btnReset click
resetHandler(world) ==
    Only({(
    updateWorklist(logStatus([discardTraversal(stopAutoRun(w)) EXCEPT !.currentGraph = Null],
                             Msg("Cleared graph; click Generate to create a new one.", <<>>)))
    ) : w \in {world}})

BtnReset ==
    /\ Apply(resetHandler(Event))
    /\ UNCHANGED <<algoSelect, edgeWeightsChecked>>

\* Mutant of the algoSelect change handler: stopAutoRun is not called.
algoSelectHandler_keepsAutoRun(w) == updateWorklist(w)

\* algoSelect change, to another option
algoSelectHandler(w) == updateWorklist(stopAutoRun(w))

AlgoSelectChange ==
    /\ \E value \in AlgoKeys \ {algoSelect} : algoSelect' = value
    /\ Apply(algoSelectHandler(Event))
    /\ UNCHANGED edgeWeightsChecked

\* edgeWeightsCheckbox change, checked being the box's new state
edgeWeightsHandler(world, sel, checked) ==
    Only({(
    LET algo        == getAlgorithmConfig(sel)
        showWeights == checked \/ algo.forceWeights
    IN IF w.currentGraph # Null
       THEN logStatus([discardTraversal(w) EXCEPT !.currentGraph.showWeights = showWeights],
                Msg("Edge weight display updated; regenerate to change weights on edges.", <<>>))
       ELSE w
    ) : w \in {world}})

EdgeWeightsChange ==
    /\ edgeWeightsChecked' = ~edgeWeightsChecked
    /\ Apply(edgeWeightsHandler(Event, algoSelect, ~edgeWeightsChecked))
    /\ UNCHANGED algoSelect

\* One firing of a live interval.
IntervalTick ==
    /\ \E h \in timers : Apply(intervalCallback([Event EXCEPT !.history.ticked = TRUE], algoSelect))
    /\ UNCHANGED <<algoSelect, edgeWeightsChecked>>

----------------------------------------------------------------------------
(* The page once the script has run: the globals are null, then the last   *)
(* statement calls generateAndDraw().  Which option the select shows, what *)
(* the checkbox and the node-count field hold come from the page.          *)

BlankWorld ==
    [currentGraph    |-> Null,
     traversalState  |-> Null,
     autoRunInterval |-> Null,
     timers          |-> {},
     status          |-> Msg("", <<>>),
     worklistDom     |-> InitialDom,
     history         |-> [visitLog |-> <<>>, stepCalls |-> 0, ticked |-> FALSE, cleared |-> "none",
                          started |-> "none", discarded |-> FALSE]]

\* The world generateAndDraw leaves on the blank page.
Loaded(made) == \E w \in {generateAndDraw(BlankWorld, made)} :
    /\ currentGraph = w.currentGraph
    /\ traversalState = w.traversalState
    /\ autoRunInterval = w.autoRunInterval
    /\ timers = w.timers
    /\ status = w.status
    /\ worklistDom = w.worklistDom
    /\ history = historyOf(w)

Init ==
    /\ algoSelect \in AlgoKeys
    /\ edgeWeightsChecked \in BOOLEAN
    /\ \E nodeCount \in NodeCountChoices :
         \E made \in PageGraphChoices[algoSelect, edgeWeightsChecked, nodeCount] : Loaded(made)

\* Seven graphs Graph.random can return with weights on, beyond MaxNodes or
\* MaxWeight: the edges array holds the spanning-tree edges of nodes 1, 2, ... first
\* (from > to), then the density edges (from < to) in the order of the double loop.
\*   DijkstraExample: 0-1 (w1), 1-2 (w2), 0-2 (w5), 2-3 (w1)
\*   TriangleExample: 0-1 (w2), 1-2 (w3), 0-2 (w9)
\*   CycleExample:    0-1 (w1), 1-2 (w1), 0-2 (w1), 0-3 (w2): the three cheapest
\*                    edges close a cycle
\*   StaleExample:    0-1 (w1), 1-2 (w1), 0-3 (w9), 0-2 (w5): node 2 is found at
\*                    distance 5, then at 2, ahead of node 3 at distance 9
\*   TieExample:      0-1 (w1), 1-2 (w1), 0-3 (w2): node 3 is found at distance 2
\*                    from node 0, then node 2 at distance 2 from node 1
\*   FanExample:      0-1, 0-2, 0-3, 1-3 (all w1): node 3 is a neighbour of node 1
\*                    and is already on the stack when DFS visits node 1
\*   ChainExample:    0-1 (w1), 1-2 (w2), 2-3 (w1), 0-4 (w3): Kruskal joins 0-1, then
\*                    2-3, then the two pairs, and findRoot(0) for the edge 0-4
\*                    finds node 0 two pointers below its root
Edge(from, to, weight) == [from |-> from, to |-> to, weight |-> weight]

DijkstraExample ==
    [nodes |-> makeNodes(4), showWeights |-> TRUE,
     edges |-> <<Edge(1, 0, 1), Edge(2, 1, 2), Edge(3, 2, 1), Edge(0, 2, 5)>>]

TriangleExample ==
    [nodes |-> makeNodes(3), showWeights |-> TRUE,
     edges |-> <<Edge(1, 0, 2), Edge(2, 1, 3), Edge(0, 2, 9)>>]

CycleExample ==
    [nodes |-> makeNodes(4), showWeights |-> TRUE,
     edges |-> <<Edge(1, 0, 1), Edge(2, 1, 1), Edge(3, 0, 2), Edge(0, 2, 1)>>]

StaleExample ==
    [nodes |-> makeNodes(4), showWeights |-> TRUE,
     edges |-> <<Edge(1, 0, 1), Edge(2, 1, 1), Edge(3, 0, 9), Edge(0, 2, 5)>>]

TieExample ==
    [nodes |-> makeNodes(4), showWeights |-> TRUE,
     edges |-> <<Edge(1, 0, 1), Edge(2, 1, 1), Edge(3, 0, 2)>>]

FanExample ==
    [nodes |-> makeNodes(4), showWeights |-> TRUE,
     edges |-> <<Edge(1, 0, 1), Edge(2, 0, 1), Edge(3, 0, 1), Edge(1, 3, 1)>>]

ChainExample ==
    [nodes |-> makeNodes(5), showWeights |-> TRUE,
     edges |-> <<Edge(1, 0, 1), Edge(2, 1, 2), Edge(3, 2, 1), Edge(4, 0, 3)>>]

ExampleChoices ==
    [sel \in AlgoKeys, checked \in BOOLEAN |->
        IF checked \/ ALGORITHMS[sel].forceWeights
        THEN {[graph |-> g, algo |-> getAlgorithmConfig(sel)] :
                 g \in {DijkstraExample, TriangleExample, CycleExample, StaleExample,
                        TieExample, FanExample, ChainExample}}
        ELSE {}]

\* The page loaded with any graph within MaxNodes and MaxWeight, or with an example.
\* The box is ticked only where it changes the graph: an algorithm that forces
\* weights gets the same graphs either way.
StepInit ==
    /\ algoSelect \in AlgoKeys
    /\ edgeWeightsChecked \in (IF ALGORITHMS[algoSelect].forceWeights THEN {FALSE} ELSE BOOLEAN)
    /\ \/ \E nodeCount \in NodeCountChoices :
            \E made \in GraphChoices[algoSelect, edgeWeightsChecked, nodeCount] : Loaded(made)
       \/ \E made \in ExampleChoices[algoSelect, edgeWeightsChecked] : Loaded(made)

Next ==
    \/ BtnGenerate
    \/ BtnStep
    \/ BtnRun
    \/ BtnReset
    \/ AlgoSelectChange
    \/ EdgeWeightsChange
    \/ IntervalTick

\* Every event the page can receive, in any order.
Spec == Init /\ [][Next]_vars

\* Only the Step button, pressed again and again on the graph the page loaded with.
StepSpec == StepInit /\ [][BtnStep]_vars /\ WF_vars(BtnStep)

\* The world the Run button leaves when it is the first thing clicked on the
\* loaded page.
RunClicked(made, sel) == \E w \in {runTraversal(generateAndDraw(BlankWorld, made), sel)} :
    /\ currentGraph = w.currentGraph
    /\ traversalState = w.traversalState
    /\ autoRunInterval = w.autoRunInterval
    /\ timers = w.timers
    /\ status = w.status
    /\ worklistDom = w.worklistDom
    /\ history = historyOf(w)

\* The page loaded as in StepInit, then Run clicked.
RunInit ==
    /\ algoSelect \in AlgoKeys
    /\ edgeWeightsChecked \in (IF ALGORITHMS[algoSelect].forceWeights THEN {FALSE} ELSE BOOLEAN)
    /\ \/ \E nodeCount \in NodeCountChoices :
            \E made \in GraphChoices[algoSelect, edgeWeightsChecked, nodeCount] :
                RunClicked(made, algoSelect)
       \/ \E made \in ExampleChoices[algoSelect, edgeWeightsChecked] : RunClicked(made, algoSelect)

\* Run clicked once and the page left alone: only the interval fires, and
\* setInterval keeps firing a live interval every 250 ms.
RunSpec == RunInit /\ [][IntervalTick]_vars /\ WF_vars(IntervalTick)

----------------------------------------------------------------------------
(* Properties of the generated graph.                                      *)

\* The nodes joined to a node of seen by a path of edges, read in both directions.
RECURSIVE reachClosure(_, _)
reachClosure(edges, seen) ==
    LET next == seen \cup {edges[k].to : k \in {m \in 1..Len(edges) : edges[m].from \in seen}}
                     \cup {edges[k].from : k \in {m \in 1..Len(edges) : edges[m].to \in seen}}
    IN IF next = seen THEN seen ELSE reachClosure(edges, next)

ReachableFrom(graph, start) == reachClosure(graph.edges, {start})

\* C1: every graph Graph.random returns is connected: each of its nodes is reachable
\* from node 0 over the generated edges, taken as undirected.
C1_Connected ==
    currentGraph # Null => ReachableFrom(currentGraph, 0) = NodeIds(currentGraph)

\* A generated graph of three nodes whose last node hangs off node 1, with a density edge.
C1_Witness ==
    /\ currentGraph # Null
    /\ Len(currentGraph.nodes) = 3
    /\ Len(currentGraph.edges) = 3
    /\ currentGraph.edges[2].to = 1

\* C2: in a generated graph no edge joins a node to itself and no two entries of
\* edges join the same unordered pair of nodes.
C2_NoDuplicateEdges ==
    currentGraph # Null =>
        LET edges == currentGraph.edges
        IN /\ \A k \in 1..Len(edges) : edges[k].from # edges[k].to
           /\ \A k, m \in 1..Len(edges) :
                 k # m => {edges[k].from, edges[k].to} # {edges[m].from, edges[m].to}

\* A generated triangle: the density loop met the two pairs the tree had joined
\* (stored as from > to) and added the third.
C2_Witness ==
    /\ currentGraph # Null
    /\ Len(currentGraph.nodes) = 3
    /\ Len(currentGraph.edges) = 3
    /\ currentGraph.edges[1].from > currentGraph.edges[1].to
    /\ currentGraph.edges[3].from < currentGraph.edges[3].to

----------------------------------------------------------------------------
(* Properties of the depth-first and breadth-first traversals.             *)

IsDfsOrBfs == traversalState # Null /\ traversalState.type \in {"dfs", "bfs"}

\* C3: with DFS or BFS selected, pressing Step again and again eventually sets
\* finished, and whenever finished is set visited is exactly the set of nodes
\* reachable from node 0.
C3_DfsBfsTerminate ==
    /\ [](IsDfsOrBfs /\ traversalState.finished =>
              traversalState.visited = ReachableFrom(currentGraph, 0))
    /\ (algoSelect \in {"dfs", "bfs"}) ~> (IsDfsOrBfs /\ traversalState.finished)

\* A finished breadth-first traversal of a graph of three or more nodes.
C3_Witness ==
    /\ IsDfsOrBfs
    /\ traversalState.type = "bfs"
    /\ traversalState.finished
    /\ Cardinality(traversalState.visited) >= 3

VisitedNow == IF traversalState = Null THEN {} ELSE traversalState.visited

\* C4: with DFS or BFS, a step never takes a node out of visited and adds no
\* node or exactly one node to it.
C4_VisitedGrowsByOne ==
    [][(algoSelect \in {"dfs", "bfs"}) =>
           (/\ VisitedNow \subseteq VisitedNow'
            /\ Cardinality(VisitedNow') - Cardinality(VisitedNow) \in {0, 1})]_vars

\* A breadth-first step has just visited a second node while others wait in the queue.
C4_Witness ==
    /\ IsDfsOrBfs
    /\ traversalState.type = "bfs"
    /\ history.stepCalls = 1
    /\ Cardinality(traversalState.visited) = 2
    /\ Len(traversalState.queue) >= 1

----------------------------------------------------------------------------
(* Properties of Dijkstra's algorithm.                                     *)

MinOf(S) == CHOOSE x \in S : \A y \in S : x <= y

\* Shortest-path weights by repeated relaxation of every edge in both directions
\* (Bellman-Ford), independent of the queue the program uses.
RECURSIVE relaxRounds(_, _, _)
relaxRounds(dist, edges, rounds) ==
    IF rounds = 0 THEN dist
    ELSE relaxRounds(
             [n \in DOMAIN dist |->
                 MinOf({dist[n]}
                       \cup {numAdd(dist[edges[k].from], edges[k].weight) :
                                k \in {x \in 1..Len(edges) : edges[x].to = n}}
                       \cup {numAdd(dist[edges[k].to], edges[k].weight) :
                                k \in {x \in 1..Len(edges) : edges[x].from = n}})],
             edges, rounds - 1)

ShortestDistances(graph, start) ==
    relaxRounds([n \in NodeIds(graph) |-> IF n = start THEN 0 ELSE Infinity],
                graph.edges, Len(graph.nodes))

IsDijkstraFinished ==
    traversalState # Null /\ traversalState.type = "dijkstra" /\ traversalState.finished

\* C5: when a Dijkstra traversal is finished, distances maps every node to the
\* weight of a shortest path from node 0; on the graph 0-1(1), 1-2(2), 0-2(5),
\* 2-3(1) the distances are 0:0, 1:1, 2:3, 3:4.
C5_DijkstraShortest ==
    IsDijkstraFinished =>
        /\ traversalState.distances = ShortestDistances(currentGraph, 0)
        /\ currentGraph.edges = DijkstraExample.edges =>
               traversalState.distances = [n \in 0..3 |-> CASE n = 0 -> 0 [] n = 1 -> 1
                                                            [] n = 2 -> 3 [] n = 3 -> 4]

\* Dijkstra has finished on the four-node example graph.
C5_Witness ==
    /\ IsDijkstraFinished
    /\ currentGraph.edges = DijkstraExample.edges
    /\ traversalState.visited = 0..3

----------------------------------------------------------------------------
(* Properties of the minimum spanning tree algorithms.                     *)

\* C6: when a Prim or Kruskal traversal is finished, edgesMST has exactly
\* nodeCount - 1 edges.
C6_MstSize ==
    (traversalState # Null /\ traversalState.type \in {"prim", "kruskal"}
        /\ traversalState.finished) =>
        Cardinality(traversalState.edgesMST) = Len(currentGraph.nodes) - 1

\* Prim has finished on a three-node graph with a cycle: one edge was left out.
C6_Witness ==
    /\ traversalState # Null
    /\ traversalState.type = "prim"
    /\ traversalState.finished
    /\ Len(currentGraph.nodes) = 3
    /\ Len(currentGraph.edges) = 3

\* The nodes joined to a node of seen by the edge keys
RECURSIVE keyClosure(_, _)
keyClosure(keys, seen) ==
    LET next == seen \cup {k[2] : k \in {x \in keys : x[1] \in seen}}
                     \cup {k[1] : k \in {x \in keys : x[2] \in seen}}
    IN IF next = seen THEN seen ELSE keyClosure(keys, next)

\* A set of edge keys is a forest when every edge is the only connection
\* between its two ends.
IsForest(keys) == \A k \in keys : k[1] # k[2] /\ k[2] \notin keyClosure(keys \ {k}, {k[1]})

\* C7: in every state of a Kruskal traversal the edges of edgesMST form a forest.
C7_KruskalAcyclic ==
    (traversalState # Null /\ traversalState.type = "kruskal") =>
        IsForest(traversalState.edgesMST)

\* Kruskal has just refused an edge that would close a cycle, with a node still to join.
C7_Witness ==
    /\ traversalState # Null
    /\ traversalState.type = "kruskal"
    /\ status.text = "Skipped edge to avoid cycle."
    /\ Cardinality(traversalState.edgesMST) = 2
    /\ Len(currentGraph.nodes) = 4

----------------------------------------------------------------------------
(* Properties of the worklist panel.                                       *)

\* C8: updateWorklist changes no field of the traversal state or of the graph,
\* and calling it twice in a row writes the same rows in the same order as
\* calling it once.
C8_ProjectionIdempotent ==
    LET once  == updateWorklist(World)
        twice == updateWorklist(once)
    IN /\ once.traversalState = traversalState
       /\ once.currentGraph = currentGraph
       /\ twice.traversalState = traversalState
       /\ twice.currentGraph = currentGraph
       /\ twice.worklistDom = once.worklistDom

\* A depth-first traversal with two nodes on the stack, shown as two rows.
C8_Witness ==
    /\ traversalState # Null
    /\ traversalState.type = "dfs"
    /\ Len(traversalState.stack) = 2
    /\ Len(worklistDom.rows) = 2
    /\ updateWorklist(World).worklistDom.rows = worklistDom.rows

----------------------------------------------------------------------------
(* Properties of auto-run.                                                 *)

\* Auto-run has been started and its interval has not fired yet.
AutoRunFresh == autoRunInterval # Null /\ ~history.ticked

\* One of the events that stop auto-run: Reset, Generate, an algorithm switch, Step.
StopEvent == BtnReset \/ BtnGenerate \/ AlgoSelectChange \/ BtnStep

\* Stopping a fresh auto-run: no step was made since it started, the stopping
\* event makes at most one, and it leaves no interval handle and no live interval.
StopsFreshAutoRun ==
    (AutoRunFresh /\ StopEvent) =>
        /\ history.stepCalls = 0
        /\ history'.stepCalls <= 1
        /\ autoRunInterval' = Null
        /\ timers' = {}

\* Only the interval whose handle autoRunInterval holds can fire.
TickNeedsHandle ==
    IntervalTick => (autoRunInterval # Null /\ timers = {autoRunInterval.handle})

\* C9: when auto-run is started and stopped by Reset, Generate, an algorithm
\* switch or Step before its interval fired, at most one step is made in
\* total, autoRunInterval is null afterwards, and no interval is left to fire
\* and make a further step.
C9_RunThenStop == [][StopsFreshAutoRun /\ TickNeedsHandle]_vars

\* Step has just stopped an auto-run whose interval had not fired, and made one step.
C9_Witness ==
    /\ history.cleared = "fresh"
    /\ history.stepCalls = 1
    /\ autoRunInterval = Null
    /\ timers = {}

----------------------------------------------------------------------------
(* The order of a depth-first traversal.                                   *)

\* The nodes an edge of the graph joins to a node, read off the edges array.
NeighborsOf(graph, n) ==
    {graph.edges[k].to : k \in {x \in 1..Len(graph.edges) : graph.edges[x].from = n}}
    \cup {graph.edges[k].from : k \in {x \in 1..Len(graph.edges) : graph.edges[x].to = n}}

Elements(s) == {s[k] : k \in 1..Len(s)}

\* Where a node stands in the visit log
VisitIndex(n) == CHOOSE k \in 1..Len(history.visitLog) : history.visitLog[k] = n

\* The stack and the visited set a depth-first step finds: a first press of Step
\* starts the traversal, with the start node alone on the stack.
DfsBefore ==
    IF traversalState = Null
    THEN [stack |-> <<startNodeOf(currentGraph)>>, visited |-> {}]
    ELSE [stack |-> traversalState.stack, visited |-> traversalState.visited]

\* A depth-first step that pops a node leaves the rest of the stack in place and
\* puts on it, largest id first, exactly the neighbours of the popped node that
\* are neither visited nor already on the stack.
DfsPushesDescending ==
    (algoSelect = "dfs" /\ Len(DfsBefore.stack) > 0) =>
        LET nodeId == DfsBefore.stack[Len(DfsBefore.stack)]
            rest   == Popped(DfsBefore.stack)
            after  == traversalState'.stack
            pushed == SubSeq(after, Len(rest) + 1, Len(after))
        IN /\ Len(after) >= Len(rest)
           /\ SubSeq(after, 1, Len(rest)) = rest
           /\ \A k \in 1..(Len(pushed) - 1) : pushed[k] > pushed[k + 1]
           /\ Elements(pushed) = {m \in NeighborsOf(currentGraph, nodeId) :
                                     /\ m \notin DfsBefore.visited \cup {nodeId}
                                     /\ m \notin Elements(rest)}

\* Of two nodes pushed by the same step (the step that visited their common
\* parent) the one with the smaller id is visited first.
SmallerSiblingFirst ==
    (traversalState # Null /\ traversalState.type = "dfs") =>
        \A a, b \in DOMAIN traversalState.parents :
            (a < b /\ traversalState.parents[a] = traversalState.parents[b]
                /\ b \in traversalState.visited) =>
                (a \in traversalState.visited /\ VisitIndex(a) < VisitIndex(b))

\* On the graph of nodes 0, 1, 2 with edges 0-1, 1-2, 0-2 the visit order is 0, 1, 2.
TriangleOrder ==
    (traversalState # Null /\ traversalState.type = "dfs" /\ traversalState.finished
        /\ Len(currentGraph.nodes) = 3 /\ Len(currentGraph.edges) = 3) =>
        history.visitLog = <<0, 1, 2>>

\* C10: a DFS step pushes the unvisited, not-pending neighbours of the popped
\* node in descending id order; of the neighbours pushed by one step the smaller
\* id is visited before the larger; on the triangle 0-1, 1-2, 0-2 DFS from 0
\* visits 0, 1, 2.
C10_DfsOrder ==
    /\ [][DfsPushesDescending]_vars
    /\ [](SmallerSiblingFirst /\ TriangleOrder)

\* DFS has finished on the triangle: nodes 1 and 2 were both pushed by the step
\* that visited node 0.
C10_Witness ==
    /\ traversalState # Null
    /\ traversalState.type = "dfs"
    /\ traversalState.finished
    /\ Len(currentGraph.edges) = 3
    /\ MapHas(traversalState.parents, 1) /\ traversalState.parents[1] = 0
    /\ MapHas(traversalState.parents, 2) /\ traversalState.parents[2] = 0
    /\ history.visitLog = <<0, 1, 2>>

----------------------------------------------------------------------------
(* Kruskal on the triangle 0-1 (w2), 1-2 (w3), 0-2 (w9).                    *)

IsKruskalOnTriangle ==
    /\ traversalState # Null
    /\ traversalState.type = "kruskal"
    /\ currentGraph.edges = TriangleExample.edges

\* C11 as stated: Kruskal run to completion on the triangle has edgesMST = {0-1, 1-2},
\* and a step has taken 0-2 from remainingEdges and discarded it, leaving it
\* traversed but not in the tree.
C11_TakesAndRejectsLastEdge ==
    (IsKruskalOnTriangle /\ traversalState.finished) =>
        /\ traversalState.edgesMST = {<<0, 1>>, <<1, 2>>}
        /\ traversalState.remainingEdges = <<>>
        /\ <<0, 2>> \in traversalState.edgesTraversed \ traversalState.edgesMST

\* C11, amended: Kruskal run to completion on the triangle has edgesMST = {0-1, 1-2};
\* edge 0-2 is never in the tree and is never taken from remainingEdges: the
\* traversal finishes on the two-edge tree with 0-2 the one edge remaining,
\* neither traversed nor in the tree.
C11_KruskalTriangle ==
    IsKruskalOnTriangle =>
        /\ <<0, 2>> \notin traversalState.edgesMST
        /\ <<0, 2>> \notin traversalState.edgesTraversed
        /\ traversalState.remainingEdges # <<>>
        /\ traversalState.remainingEdges[Len(traversalState.remainingEdges)] = Edge(0, 2, 9)
        /\ traversalState.finished =>
               /\ traversalState.edgesMST = {<<0, 1>>, <<1, 2>>}
               /\ traversalState.remainingEdges = <<Edge(0, 2, 9)>>

\* Kruskal has finished on the triangle.
C11_Witness ==
    /\ IsKruskalOnTriangle
    /\ traversalState.finished
    /\ traversalState.edgesMST = {<<0, 1>>, <<1, 2>>}
    /\ status.text = "Kruskal complete. MST built or no more edges."

----------------------------------------------------------------------------
(* Step requests: on a finished traversal, without a traversal, without a   *)
(* graph.                                                                  *)

\* The world the Step button leaves when pressed in the current state.
AfterStep == stepTraversal(stopAutoRun(Event), algoSelect)

\* The traversal is the selected algorithm's, on the current graph, and finished.
FinishedForSelection ==
    /\ currentGraph # Null
    /\ traversalState # Null
    /\ traversalState.graph = currentGraph.ref
    /\ traversalState.type = getAlgorithmConfig(algoSelect).id
    /\ traversalState.finished

\* The message the step that finishes a traversal logs.
CompletionMessage(type) ==
    CASE type = "dfs"      -> Msg("DFS complete.", <<>>)
      [] type = "bfs"      -> Msg("BFS complete.", <<>>)
      [] type = "dijkstra" -> Msg("Dijkstra complete. Shortest paths computed.", <<>>)
      [] type = "prim"     -> Msg("Prim complete. MST built.", <<>>)
      [] type = "kruskal"  -> Msg("Kruskal complete. MST built or no more edges.", <<>>)

\* C12: a step request on a finished traversal of the selected algorithm and the
\* current graph runs no step function and leaves every field of the traversal
\* state as it was, finished included; the graph stays, and the status message
\* reads that the traversal is complete.
C12_StepOnFinishedIsNoOp ==
    FinishedForSelection =>
        \A after \in {AfterStep} :
            /\ after.traversalState = traversalState
            /\ after.traversalState.finished
            /\ after.currentGraph = currentGraph
            /\ after.history.stepCalls = 0
            /\ after.status = CompletionMessage(traversalState.type)

\* Step has just been pressed on a finished traversal while an auto-run started
\* on it was waiting for its first tick: the press stopped the auto-run and
\* ran no step function.
C12_Witness ==
    /\ FinishedForSelection
    /\ history.cleared = "fresh"
    /\ history.stepCalls = 0
    /\ autoRunInterval = Null
    /\ status = CompletionMessage(traversalState.type)

\* There is a graph and no traversal of the selected algorithm bound to it.
StepNeedsStart ==
    /\ currentGraph # Null
    /\ \/ traversalState = Null
       \/ traversalState.graph # currentGraph.ref
       \/ traversalState.type # getAlgorithmConfig(algoSelect).id

\* The world the Step button leaves when pressed in the current state with the
\* traversal there is thrown away first.
AfterStepFromNone == stepTraversal(stopAutoRun([Event EXCEPT !.traversalState = Null]), algoSelect)

\* C13: a step request with a graph and no traversal, or with a traversal bound to
\* another graph or of another algorithm than the selected one, starts a new
\* traversal: afterwards traversalState is bound to currentGraph, its type is
\* the selected algorithm, and it holds nothing of the traversal it replaced.
\* A step request without a graph leaves the graph null and traversalState as it was.
C13_StepRestarts ==
    \A after \in {AfterStep} :
        /\ StepNeedsStart =>
              /\ after.history.started # "none"
              /\ after.currentGraph = currentGraph
              /\ after.traversalState # Null
              /\ after.traversalState.graph = currentGraph.ref
              /\ after.traversalState.type = getAlgorithmConfig(algoSelect).id
              /\ traversalState # Null => after.traversalState = AfterStepFromNone.traversalState
        /\ currentGraph = Null =>
              /\ after.currentGraph = Null
              /\ after.traversalState = traversalState
              /\ after.history.started = "none"

\* Step has just replaced the traversal of another algorithm by one of the
\* selected algorithm and made its first step.
C13_Witness ==
    /\ history.started = "again"
    /\ history.stepCalls = 1
    /\ autoRunInterval = Null
    /\ traversalState # Null
    /\ traversalState.type = algoSelect
    /\ traversalState.graph = currentGraph.ref

----------------------------------------------------------------------------
(* Events that replace the graph or the algorithm, while auto-run is on.   *)

\* One of the events that replace the graph or the selected algorithm.
ReplaceEvent == BtnGenerate \/ BtnReset \/ AlgoSelectChange

\* Generate, Reset or an algorithm switch with auto-run on leaves no handle in
\* autoRunInterval and no interval scheduled: clearInterval was called on it.
CancelsOnReplace ==
    (autoRunInterval # Null /\ ReplaceEvent) =>
        /\ autoRunInterval' = Null
        /\ timers' = {}
        /\ history'.cleared # "none"

\* The only interval that can ever fire is the one autoRunInterval holds.
NoOrphanInterval == timers = IF autoRunInterval = Null THEN {} ELSE {autoRunInterval.handle}

\* A tick changes the traversal state only through the interval autoRunInterval holds.
TickOnlyWhileHeld == IntervalTick => autoRunInterval # Null

\* C14: Generate, Reset and an algorithm switch made while auto-run is on cancel
\* its interval in the same event, so autoRunInterval is null afterwards; no
\* interval other than the one autoRunInterval holds is ever scheduled, so no
\* tick of a cancelled interval touches a traversal state.
C14_ReplaceCancelsAutoRun ==
    /\ [][CancelsOnReplace /\ TickOnlyWhileHeld]_vars
    /\ []NoOrphanInterval

\* An algorithm switch has just cancelled an auto-run that had already ticked,
\* in the middle of its traversal.
C14_Witness ==
    /\ history.cleared = "ticked"
    /\ history.stepCalls = 0
    /\ autoRunInterval = Null
    /\ timers = {}
    /\ traversalState # Null
    /\ ~traversalState.finished
    /\ traversalState.type # algoSelect

\* C15: immediately after Reset, Generate or an algorithm switch the traversal
\* state there was is no longer the active one, the one the worklist panel and
\* the renderer read.
C15_DestroyedOnReplace ==
    [][(traversalState # Null /\ ReplaceEvent) => traversalState' # traversalState]_vars

\* The traversal there is was started on the graph there is.
BoundToCurrent ==
    traversalState # Null =>
        (currentGraph # Null /\ traversalState.graph = currentGraph.ref)

\* The event put another graph in currentGraph or cleared it: the nodes or edges
\* differ, or the status is the one generateAndDraw or the Reset handler logs.
GraphReplacedOrCleared ==
    \/ (currentGraph = Null) # (currentGraph' = Null)
    \/ /\ currentGraph # Null
       /\ currentGraph' # Null
       /\ <<currentGraph.nodes, currentGraph.edges>> # <<currentGraph'.nodes, currentGraph'.edges>>
    \/ status'.text = "Generated nodes and edges for"
    \/ status'.text = "Cleared graph; click Generate to create a new one."

\* C16: in every reachable state a traversalState that is not null is bound to
\* currentGraph, and an event that replaces the graph (Generate) or clears it
\* (Reset) leaves traversalState null.
C16_TraversalBoundToGraph ==
    /\ []BoundToCurrent
    /\ [][GraphReplacedOrCleared => traversalState' = Null]_vars

\* Generate has just replaced the graph and discarded the traversal that was
\* running on the old one.
C16_Witness ==
    /\ history.discarded
    /\ status.text = "Generated nodes and edges for"
    /\ currentGraph # Null
    /\ traversalState = Null

----------------------------------------------------------------------------
(* The steps of Dijkstra's algorithm.                                      *)

\* a's entries all occur in b, in a's order.
RECURSIVE IsSubsequence(_, _)
IsSubsequence(a, b) ==
    IF a = <<>> THEN TRUE
    ELSE IF b = <<>> THEN FALSE
    ELSE IF Head(a) = Head(b) THEN IsSubsequence(Tail(a), Tail(b))
    ELSE IsSubsequence(a, Tail(b))

\* What a Dijkstra step finds: a first press of Step starts the traversal, with
\* the start node at distance 0 alone in the queue.
DijkstraBefore ==
    IF traversalState = Null
    THEN [queue     |-> <<[id |-> startNodeOf(currentGraph), dist |-> 0]>>,
          visited   |-> {},
          distances |-> [n \in NodeIds(currentGraph) |->
                            IF n = startNodeOf(currentGraph) THEN 0 ELSE Infinity],
          previous  |-> EmptyMap,
          finished  |-> FALSE]
    ELSE [queue     |-> traversalState.queue,
          visited   |-> traversalState.visited,
          distances |-> traversalState.distances,
          previous  |-> traversalState.previous,
          finished  |-> traversalState.finished]

\* The positions of the queue entries whose node is not settled yet.
LiveEntries == {k \in 1..Len(DijkstraBefore.queue) :
                   DijkstraBefore.queue[k].id \notin DijkstraBefore.visited}

\* A step on an unfinished traversal: with a live entry in the queue it drops the
\* entries before the first live one, settles that entry's node and no other,
\* and keeps the entries behind it, in order; without one it leaves the queue
\* empty, sets finished and settles nothing.
DijkstraStepSettlesOne ==
    (algoSelect = "dijkstra" /\ ~DijkstraBefore.finished) =>
        IF LiveEntries = {}
        THEN /\ traversalState'.finished
             /\ traversalState'.queue = <<>>
             /\ traversalState'.visited = DijkstraBefore.visited
        ELSE LET first == MinOf(LiveEntries)
                 queue == DijkstraBefore.queue
             IN /\ ~traversalState'.finished
                /\ traversalState'.visited = DijkstraBefore.visited \cup {queue[first].id}
                /\ Cardinality(traversalState'.visited) = Cardinality(DijkstraBefore.visited) + 1
                /\ IsSubsequence(SubSeq(queue, first + 1, Len(queue)), traversalState'.queue)

\* C17: a Dijkstra step on an unfinished traversal either settles exactly one node
\* that was not settled, after dropping the queue entries of settled nodes in
\* front of it, or, with no entry of an unsettled node left, empties the queue
\* and sets finished without settling a node.
C17_DijkstraStep == [][DijkstraStepSettlesOne]_vars

\* On the graph 0-1 (w1), 1-2 (w1), 0-3 (w9), 0-2 (w5) the fourth step has just
\* dropped the entry of node 2 at distance 5 and settled node 3 behind it.
C17_Witness ==
    /\ traversalState # Null
    /\ traversalState.type = "dijkstra"
    /\ currentGraph.edges = StaleExample.edges
    /\ history.visitLog = <<0, 1, 2, 3>>
    /\ history.stepCalls = 1
    /\ traversalState.queue = <<>>
    /\ ~traversalState.finished

\* A step leaves the distance and the predecessor of every settled node as they
\* were, and the node it settles holds the dist of the queue entry popped for it.
SettledStaysPut ==
    algoSelect = "dijkstra" =>
        /\ \A n \in DijkstraBefore.visited :
              /\ traversalState'.distances[n] = DijkstraBefore.distances[n]
              /\ MapHas(traversalState'.previous, n) = MapHas(DijkstraBefore.previous, n)
              /\ MapHas(DijkstraBefore.previous, n) =>
                     traversalState'.previous[n] = DijkstraBefore.previous[n]
        /\ (~DijkstraBefore.finished /\ LiveEntries # {}) =>
              LET popped == DijkstraBefore.queue[MinOf(LiveEntries)]
              IN /\ popped.id \in traversalState'.visited
                 /\ traversalState'.distances[popped.id] = popped.dist
                 /\ DijkstraBefore.distances[popped.id] = popped.dist

\* C18: once Dijkstra has settled a node, no later step changes its entry in
\* distances or in previous, and the distance it holds when it is settled is
\* the dist of the queue entry popped for it.
C18_SettledIsFinal == [][SettledStaysPut]_vars

\* On the triangle 0-1 (w2), 1-2 (w3), 0-2 (w9) node 2 was found at distance 9,
\* then at 5 through node 1, and settled at 5; its entry at 9 is still queued.
C18_Witness ==
    /\ traversalState # Null
    /\ traversalState.type = "dijkstra"
    /\ currentGraph.edges = TriangleExample.edges
    /\ traversalState.visited = {0, 1, 2}
    /\ traversalState.distances[2] = 5
    /\ traversalState.previous[2] = 1
    /\ traversalState.queue = <<[id |-> 2, dist |-> 9]>>

----------------------------------------------------------------------------
(* The priority queues of Dijkstra and Prim.                               *)

\* list with item put behind its first count entries.
PutBehind(list, count, item) ==
    SubSeq(list, 1, count) \o <<item>> \o SubSeq(list, count + 1, Len(list))

\* The keys worth inserting into a queue with these keys: each key there is,
\* one more than each, and the smallest a key can be.
KeysToTry(keys, least) == keys \cup {k + 1 : k \in keys} \cup {least}

\* The Dijkstra queue is ascending by dist; whatever is enqueued next lands
\* behind every entry whose dist is not greater; and of two queued entries of
\* equal dist that are the current best of unsettled nodes, the one enqueued
\* first (by the node settled earlier, or by the same node for the smaller
\* neighbour id, the order of the relax loop) stands first.
DijkstraQueueStable ==
    (traversalState # Null /\ traversalState.type = "dijkstra") =>
        LET queue  == traversalState.queue
            isBest == [k \in 1..Len(queue) |->
                          /\ queue[k].id \notin traversalState.visited
                          /\ queue[k].dist = traversalState.distances[queue[k].id]
                          /\ MapHas(traversalState.previous, queue[k].id)]
            by     == [k \in 1..Len(queue) |->
                          IF isBest[k] THEN VisitIndex(traversalState.previous[queue[k].id]) ELSE 0]
        IN /\ \A k \in 1..(Len(queue) - 1) : queue[k].dist <= queue[k + 1].dist
           /\ \A d \in KeysToTry({queue[k].dist : k \in 1..Len(queue)}, 0) :
                 enqueueByDistance(queue, [id |-> 0, dist |-> d]) =
                     PutBehind(queue, Cardinality({k \in 1..Len(queue) : queue[k].dist <= d}),
                               [id |-> 0, dist |-> d])
           /\ \A k, m \in 1..Len(queue) :
                 (k < m /\ queue[k].dist = queue[m].dist /\ isBest[k] /\ isBest[m]) =>
                     \/ by[k] < by[m]
                     \/ by[k] = by[m] /\ queue[k].id < queue[m].id

\* The same for the Prim queue and weight: an edge was enqueued when its from
\* node joined the tree, the edges of one node in ascending order of to.
PrimQueueStable ==
    (traversalState # Null /\ traversalState.type = "prim") =>
        LET queue == traversalState.queue
            by    == [k \in 1..Len(queue) |-> VisitIndex(queue[k].from)]
        IN /\ \A k \in 1..(Len(queue) - 1) : queue[k].weight <= queue[k + 1].weight
           /\ \A wgt \in KeysToTry({queue[k].weight : k \in 1..Len(queue)}, 1) :
                 enqueueEdgeByWeight(queue, [from |-> 0, to |-> 0, weight |-> wgt]) =
                     PutBehind(queue, Cardinality({k \in 1..Len(queue) : queue[k].weight <= wgt}),
                               [from |-> 0, to |-> 0, weight |-> wgt])
           /\ \A k, m \in 1..Len(queue) :
                 (k < m /\ queue[k].weight = queue[m].weight) =>
                     \/ by[k] < by[m]
                     \/ by[k] = by[m] /\ queue[k].to < queue[m].to

\* C19: in every reachable state the Dijkstra queue is sorted ascending by dist
\* and the Prim queue ascending by weight, and entries of equal key stand in
\* the order they were enqueued, so that is the order they are popped in.
C19_QueuesSortedStable == DijkstraQueueStable /\ PrimQueueStable

\* Dijkstra on 0-1 (w1), 1-2 (w1), 0-3 (w2) after two steps: node 3, enqueued at
\* distance 2 by node 0, stands before node 2, enqueued at distance 2 by node 1.
C19_Witness ==
    /\ traversalState # Null
    /\ traversalState.type = "dijkstra"
    /\ currentGraph.edges = TieExample.edges
    /\ traversalState.queue = <<[id |-> 3, dist |-> 2], [id |-> 2, dist |-> 2]>>
    /\ history.visitLog = <<0, 1>>

----------------------------------------------------------------------------
(* The tree Prim and Kruskal build is a minimum spanning tree.             *)

\* The keys of the edges of a graph
EdgeKeys(graph) == {canonicalEdgeKey(graph.edges[k].from, graph.edges[k].to) : k \in 1..Len(graph.edges)}

\* The weight of the edge with a key (a generated graph has one edge per key)
WeightOfKey(graph, key) ==
    graph.edges[CHOOSE k \in 1..Len(graph.edges) :
                    canonicalEdgeKey(graph.edges[k].from, graph.edges[k].to) = key].weight

RECURSIVE TotalWeight(_, _)
TotalWeight(graph, keys) ==
    IF keys = {} THEN 0
    ELSE LET key == CHOOSE k \in keys : TRUE
         IN WeightOfKey(graph, key) + TotalWeight(graph, keys \ {key})

\* A spanning tree: nodeCount - 1 edges of the graph that join every node to node 0.
IsSpanningTree(graph, keys) ==
    /\ keys \subseteq EdgeKeys(graph)
    /\ Cardinality(keys) = Len(graph.nodes) - 1
    /\ keyClosure(keys, {0}) = NodeIds(graph)

\* The least total weight of a spanning tree, by enumeration of the edge subsets.
MinSpanningWeight(graph) ==
    MinOf({TotalWeight(graph, keys) :
              keys \in {T \in SUBSET EdgeKeys(graph) : IsSpanningTree(graph, T)}})

IsMstFinished ==
    /\ traversalState # Null
    /\ traversalState.type \in {"prim", "kruskal"}
    /\ traversalState.finished

\* C20: when Prim or Kruskal has finished, edgesMST is a spanning tree of the
\* graph and no spanning tree of the graph has a smaller total weight (so both
\* end on the same total weight on the same graph).
C20_MinimumSpanningTree ==
    IsMstFinished =>
        /\ IsSpanningTree(currentGraph, traversalState.edgesMST)
        /\ TotalWeight(currentGraph, traversalState.edgesMST) = MinSpanningWeight(currentGraph)

\* Kruskal has finished on a three-node graph with a cycle whose last edge, the
\* one the density loop added, is cheaper than the first tree edge and in the tree.
C20_Witness ==
    /\ IsMstFinished
    /\ traversalState.type = "kruskal"
    /\ Len(currentGraph.nodes) = 3
    /\ Len(currentGraph.edges) = 3
    /\ currentGraph.edges[3].weight < currentGraph.edges[1].weight
    /\ canonicalEdgeKey(currentGraph.edges[3].from, currentGraph.edges[3].to) \in traversalState.edgesMST
    /\ canonicalEdgeKey(currentGraph.edges[1].from, currentGraph.edges[1].to) \notin traversalState.edgesMST

----------------------------------------------------------------------------
(* Depth-first search against the recursive definition.                    *)

\* The members of a set of numbers, smallest first
RECURSIVE Ascending(_)
Ascending(S) == IF S = {} THEN <<>> ELSE <<MinOf(S)>> \o Ascending(S \ {MinOf(S)})

\* Recursive depth-first search: visit the node, then search from each neighbour,
\* smallest id first, that no earlier call has visited.  order is the preorder so far.
RECURSIVE RecursiveDfs(_, _, _)
RECURSIVE RecursiveDfsEach(_, _, _, _)
RecursiveDfs(graph, node, order) ==
    RecursiveDfsEach(graph, Ascending(NeighborsOf(graph, node)), 1, Append(order, node))

RecursiveDfsEach(graph, neighbors, i, order) ==
    IF i > Len(neighbors) THEN order
    ELSE RecursiveDfsEach(graph, neighbors, i + 1,
             IF neighbors[i] \in Elements(order) THEN order
             ELSE RecursiveDfs(graph, neighbors[i], order))

\* C21: the order in which the DFS state machine marks nodes visited is the
\* preorder of a recursive depth-first search from node 0 that explores each
\* node's neighbours in ascending id order: the visit log is always a prefix of
\* that preorder, and the whole of it once the traversal has finished.
C21_DfsIsRecursivePreorder ==
    (traversalState # Null /\ traversalState.type = "dfs") =>
        \A preorder \in {RecursiveDfs(currentGraph, 0, <<>>)} :
            /\ Len(history.visitLog) <= Len(preorder)
            /\ history.visitLog = SubSeq(preorder, 1, Len(history.visitLog))
            /\ traversalState.finished => history.visitLog = preorder

----------------------------------------------------------------------------
(* One step of Kruskal.                                                    *)

\* The representative of a node's set: the node its parent pointers lead to
RECURSIVE RootOf(_, _)
RootOf(parent, n) == IF parent[n] = n THEN n ELSE RootOf(parent, parent[n])

\* What a Kruskal step finds: a first press of Step starts the traversal first.
KruskalBefore ==
    IF traversalState = Null
    THEN startKruskalTraversal(World, currentGraph).traversalState
    ELSE traversalState

\* A step on an unfinished traversal: with no edge left, or nodeCount - 1 edges in
\* edgesMST, it sets finished and touches nothing else; otherwise it does not set
\* finished, takes the first edge of remainingEdges, which no remaining edge is
\* cheaper than, adds it to edgesTraversed, and adds it to edgesMST exactly when
\* its endpoints had different roots.
KruskalStepTakesOneEdge ==
    (algoSelect = "kruskal") =>
        \A before \in {KruskalBefore} :
            ~before.finished =>
                LET rem   == before.remainingEdges
                    after == traversalState'
                IN IF rem = <<>> \/ Cardinality(before.edgesMST) = Len(currentGraph.nodes) - 1
                   THEN /\ after.finished
                        /\ after.remainingEdges = rem
                        /\ after.edgesMST = before.edgesMST
                        /\ after.edgesTraversed = before.edgesTraversed
                   ELSE LET edge == rem[1]
                            key  == canonicalEdgeKey(edge.from, edge.to)
                        IN /\ ~after.finished
                           /\ after.remainingEdges = Tail(rem)
                           /\ \A k \in 1..Len(rem) : edge.weight <= rem[k].weight
                           /\ after.edgesTraversed = before.edgesTraversed \cup {key}
                           /\ after.edgesMST =
                                  IF RootOf(before.parent, edge.from) # RootOf(before.parent, edge.to)
                                  THEN before.edgesMST \cup {key}
                                  ELSE before.edgesMST

\* C22: a Kruskal step sets finished without consuming an edge exactly when
\* remainingEdges is empty or edgesMST already has nodeCount - 1 edges; otherwise
\* it removes exactly the first, cheapest edge of remainingEdges and adds it to
\* edgesTraversed whether accepted or rejected, and to edgesMST only when its
\* endpoints were in different sets.
C22_KruskalStep == [][KruskalStepTakesOneEdge]_vars

\* On the graph 0-1 (w1), 1-2 (w1), 0-2 (w1), 0-3 (w2) the third step has just
\* rejected 0-2: it is traversed, not in the tree, and 0-3 is still to come.
C22_Witness ==
    /\ traversalState # Null
    /\ traversalState.type = "kruskal"
    /\ currentGraph.edges = CycleExample.edges
    /\ traversalState.edgesTraversed = {<<0, 1>>, <<1, 2>>, <<0, 2>>}
    /\ traversalState.edgesMST = {<<0, 1>>, <<1, 2>>}
    /\ Len(traversalState.remainingEdges) = 1
    /\ ~traversalState.finished
    /\ status.text = "Skipped edge to avoid cycle."

----------------------------------------------------------------------------
(* One step of Prim.                                                       *)

\* What a Prim step finds: a first press of Step starts the traversal first.
PrimBefore ==
    IF traversalState = Null
    THEN startPrimTraversal(World, currentGraph).traversalState
    ELSE traversalState

\* The edges of the graph that join a node to a node outside a set, as the queue
\* entries that lead away from the node
EdgesOutOf(graph, from, inside) ==
    {[from |-> from, to |-> graph.edges[k].to, weight |-> graph.edges[k].weight] :
        k \in {x \in 1..Len(graph.edges) :
                  graph.edges[x].from = from /\ graph.edges[x].to \notin inside}}
    \cup
    {[from |-> from, to |-> graph.edges[k].from, weight |-> graph.edges[k].weight] :
        k \in {x \in 1..Len(graph.edges) :
                  graph.edges[x].to = from /\ graph.edges[x].from \notin inside}}

\* How many times an item stands in a list
CountIn(list, item) == Cardinality({k \in 1..Len(list) : list[k] = item})

\* A step on an unfinished traversal.  On an empty queue it sets finished and
\* nothing else.  Otherwise it does not set finished and takes the front entry,
\* which no entry is cheaper than: with `to` visited it leaves visited, edgesMST
\* and the rest of the queue as they were; else it adds `to` to visited and the
\* edge to edgesMST, and the queue is its old tail with one more entry for each
\* edge from `to` to a node outside the new visited set.
PrimStepTakesFront ==
    (algoSelect = "prim") =>
        \A before \in {PrimBefore} :
            ~before.finished =>
                LET queue == before.queue
                    after == traversalState'
                IN IF queue = <<>>
                   THEN /\ after.finished
                        /\ after.queue = <<>>
                        /\ after.visited = before.visited
                        /\ after.edgesMST = before.edgesMST
                   ELSE LET edge == queue[1]
                            rest == Tail(queue)
                        IN /\ ~after.finished
                           /\ \A k \in 1..Len(queue) : edge.weight <= queue[k].weight
                           /\ IF edge.to \in before.visited
                              THEN /\ after.queue = rest
                                   /\ after.visited = before.visited
                                   /\ after.edgesMST = before.edgesMST
                              ELSE LET new == EdgesOutOf(currentGraph, edge.to,
                                                         before.visited \cup {edge.to})
                                   IN /\ after.visited = before.visited \cup {edge.to}
                                      /\ after.edgesMST = before.edgesMST
                                             \cup {canonicalEdgeKey(edge.from, edge.to)}
                                      /\ Len(after.queue) = Len(rest) + Cardinality(new)
                                      /\ IsSubsequence(rest, after.queue)
                                      /\ \A e \in Elements(after.queue) \cup new :
                                            CountIn(after.queue, e) = CountIn(rest, e)
                                                + (IF e \in new THEN 1 ELSE 0)

\* C23: a Prim step on a non-empty queue removes exactly the front, cheapest
\* entry; if its `to` node is visited, visited and edgesMST stay as they were;
\* otherwise `to` joins visited, the edge joins edgesMST and one entry is inserted
\* for each neighbour of `to` that is not visited.  finished is set only by a step
\* that finds the queue empty.
C23_PrimStep == [][PrimStepTakesFront]_vars

\* On the triangle 0-1 (w2), 1-2 (w3), 0-2 (w9) the third step has just discarded
\* the entry 0-2, whose `to` was visited: the queue is empty and finished is not
\* set yet.
C23_Witness ==
    /\ traversalState # Null
    /\ traversalState.type = "prim"
    /\ currentGraph.edges = TriangleExample.edges
    /\ traversalState.visited = {0, 1, 2}
    /\ traversalState.edgesMST = {<<0, 1>>, <<1, 2>>}
    /\ traversalState.queue = <<>>
    /\ ~traversalState.finished
    /\ history.stepCalls = 1

----------------------------------------------------------------------------
(* Auto-run left alone runs the traversal to its end.                      *)

\* The traversal has finished and no interval is left.
RunIsOver ==
    /\ traversalState # Null
    /\ traversalState.finished
    /\ autoRunInterval = Null
    /\ timers = {}

\* The firing that sets finished clears the interval, and nothing steps or
\* changes a finished traversal.
TickStopsAtFinish ==
    /\ (traversalState' # Null /\ traversalState'.finished) =>
           (autoRunInterval' = Null /\ timers' = {})
    /\ (traversalState # Null /\ traversalState.finished) =>
           (history'.stepCalls = 0 /\ traversalState' = traversalState)

\* C24: after Run is clicked on a generated graph with any of the five algorithms
\* selected and the page is left alone, the firings of the timer bring the
\* traversal to finished = true; the firing that does clears the interval,
\* autoRunInterval stays null from then on, and no step runs after finished is set.
C24_RunReachesFinished ==
    /\ [][TickStopsAtFinish]_vars
    /\ [](autoRunInterval # Null => (traversalState # Null /\ ~traversalState.finished))
    /\ <>[]RunIsOver

\* Kruskal on the cycle graph has run to its end: the last firing made the step
\* that set finished and cleared the interval it came from.
C24_Witness ==
    /\ RunIsOver
    /\ traversalState.type = "kruskal"
    /\ currentGraph.edges = CycleExample.edges
    /\ history.stepCalls = 1
    /\ history.cleared = "ticked"

----------------------------------------------------------------------------
(* A pending interval and the traversal it steps.                          *)

\* C25: whenever an auto-run interval is pending (autoRunInterval is not null)
\* there is an active traversal, bound to currentGraph and of the selected
\* algorithm: no event, the edge-weights checkbox included, discards the
\* traversal and leaves the interval pending.
C25_PendingIntervalHasTraversal ==
    autoRunInterval # Null =>
        /\ traversalState # Null
        /\ currentGraph # Null
        /\ traversalState.graph = currentGraph.ref
        /\ traversalState.type = algoSelect

----------------------------------------------------------------------------
(* One interval at a time.                                                 *)

\* The scheduler holds no interval, or the one interval autoRunInterval names.
AtMostOneInterval ==
    /\ Cardinality(timers) <= 1
    /\ autoRunInterval = Null => timers = {}
    /\ autoRunInterval # Null => timers = {autoRunInterval.handle}

\* An event that leaves an interval pending where one was pending has either
\* cleared the old one first or left it as it was; and no event, a firing of the
\* interval included, runs more than one step.
IntervalReplacedOnlyAfterClear ==
    /\ (autoRunInterval # Null /\ autoRunInterval' # Null /\ history'.cleared = "none") =>
           (autoRunInterval' = autoRunInterval /\ timers' = timers)
    /\ history'.stepCalls <= 1

\* C26: at most one auto-run interval exists at any time: whatever Run clicks,
\* other events and firings are interleaved, a new interval is created only after
\* the previous one was cleared, and at most one step runs per firing.
C26_SingleInterval == []AtMostOneInterval /\ [][IntervalReplacedOnlyAfterClear]_vars

\* Run has just been clicked while auto-run was under way: the interval that had
\* fired was cleared and the one pending now has not fired yet.
C26_Witness ==
    /\ autoRunInterval # Null
    /\ timers = {autoRunInterval.handle}
    /\ history.cleared = "ticked"
    /\ ~history.ticked
    /\ traversalState # Null
    /\ traversalState.visited # {}

----------------------------------------------------------------------------
(* The worklist of DFS and BFS and its membership set.                     *)

\* The stack of a DFS state or the queue of a BFS state, with its membership set
WorklistOf(ts) ==
    IF ts.type = "dfs" THEN [list |-> ts.stack, set |-> ts.stackSet]
    ELSE [list |-> ts.queue, set |-> ts.queueSet]

\* The membership set is the set of the ids in the worklist, no id is in the
\* worklist twice, none is visited, and no step has reported a skip.
WorklistMirrored ==
    (traversalState # Null /\ traversalState.type \in {"dfs", "bfs"}) =>
        \A wl \in {WorklistOf(traversalState)} :
            /\ Elements(wl.list) = wl.set
            /\ Cardinality(wl.set) = Len(wl.list)
            /\ wl.set \cap traversalState.visited = {}
            /\ status.text # "Skipping already visited"

\* A step that finds a node in the worklist marks that node, which was not
\* visited, and no other; the first press of Step marks the start node.
StepVisitsOneNew ==
    (algoSelect \in {"dfs", "bfs"}) =>
        IF traversalState = Null
        THEN traversalState'.visited = {startNodeOf(currentGraph)}
        ELSE \A wl \in {WorklistOf(traversalState)} :
                (~traversalState.finished /\ wl.list # <<>>) =>
                    LET next == IF traversalState.type = "dfs" THEN wl.list[Len(wl.list)]
                                ELSE wl.list[1]
                    IN /\ next \notin traversalState.visited
                       /\ traversalState'.visited = traversalState.visited \cup {next}
                       /\ ~traversalState'.finished

\* C27: in every DFS (BFS) state stackSet (queueSet) is exactly the set of ids in
\* the stack (queue), the worklist holds no id twice and no visited id; so the
\* `Skipping already visited` branch is never taken and every step that does not
\* finish the traversal visits exactly one new node.
C27_WorklistNoDuplicates == []WorklistMirrored /\ [][StepVisitsOneNew]_vars

\* DFS on the graph 0-1, 0-2, 0-3, 1-3 after visiting 0 and 1: node 3, a neighbour
\* of node 1, was pending already and stands on the stack once.
C27_Witness ==
    /\ traversalState # Null
    /\ traversalState.type = "dfs"
    /\ currentGraph.edges = FanExample.edges
    /\ traversalState.visited = {0, 1}
    /\ traversalState.stack = <<3, 2>>
    /\ traversalState.stackSet = {2, 3}

----------------------------------------------------------------------------
(* Breadth-first search visits by hop distance.                            *)

\* The hop distances from a node, layer by layer: dist maps the nodes reached so
\* far, frontier is the layer at distance d - 1.
RECURSIVE hopLayers(_, _, _, _)
hopLayers(graph, dist, frontier, d) ==
    LET next == UNION {NeighborsOf(graph, n) : n \in frontier} \ DOMAIN dist
    IN IF next = {} THEN dist
       ELSE hopLayers(graph, [n \in DOMAIN dist \cup next |-> IF n \in next THEN d ELSE dist[n]],
                      next, d + 1)

HopDistances(graph, start) == hopLayers(graph, [n \in {start} |-> 0], {start}, 1)

\* In a BFS state the visit log never steps down in hop distance, every visited
\* node but the start has for parent a neighbour one hop nearer the start, and
\* edgesTraversed holds exactly the edges from the visited nodes to their parents.
BfsByHops ==
    (traversalState # Null /\ traversalState.type = "bfs") =>
        \A hops \in {HopDistances(currentGraph, startNodeOf(currentGraph))} :
            LET log     == history.visitLog
                parents == traversalState.parents
                reached == traversalState.visited \ {startNodeOf(currentGraph)}
            IN /\ Elements(log) = traversalState.visited
               /\ \A k \in 1..(Len(log) - 1) : hops[log[k]] <= hops[log[k + 1]]
               /\ \A n \in reached :
                     /\ MapHas(parents, n)
                     /\ parents[n] \in NeighborsOf(currentGraph, n)
                     /\ hops[parents[n]] = hops[n] - 1
               /\ traversalState.edgesTraversed =
                      {canonicalEdgeKey(parents[n], n) : n \in reached}

\* C28: BFS marks nodes visited in non-decreasing order of hop distance from the
\* start node, and parents maps every visited node other than the start to a
\* neighbour whose hop distance is exactly one less, so edgesTraversed is a
\* shortest-hop tree over the visited nodes.
C28_BfsHopOrder == BfsByHops

\* BFS has finished on 0-1, 1-2, 0-2, 2-3: node 3, two hops away through node 2,
\* was visited last.
C28_Witness ==
    /\ traversalState # Null
    /\ traversalState.type = "bfs"
    /\ traversalState.finished
    /\ currentGraph.edges = DijkstraExample.edges
    /\ history.visitLog = <<0, 1, 2, 3>>
    /\ traversalState.parents[3] = 2
    /\ traversalState.edgesTraversed = {<<0, 1>>, <<0, 2>>, <<2, 3>>}

----------------------------------------------------------------------------
(* The disjoint sets of Kruskal.                                           *)

\* The node k parent pointers above a node
RECURSIVE WalkUp(_, _, _)
WalkUp(parent, n, k) == IF k = 0 THEN n ELSE WalkUp(parent, parent[n], k - 1)

\* Where the pointers lead from a node within as many steps as there are nodes
TopOf(parent, n) == WalkUp(parent, n, Cardinality(DOMAIN parent))

\* A parent map is a forest when the pointers from every node lead to a node
\* that is its own parent.
IsParentForest(parent) ==
    /\ \A n \in DOMAIN parent : parent[n] \in DOMAIN parent
    /\ \A n \in DOMAIN parent : parent[TopOf(parent, n)] = TopOf(parent, n)

\* Two parent maps put the same nodes under one root.
SamePartition(p, q) ==
    \A a, b \in DOMAIN p : (TopOf(p, a) = TopOf(p, b)) <=> (TopOf(q, a) = TopOf(q, b))

\* In a Kruskal state: the parent map is a forest; two nodes have one root exactly
\* when edges of edgesMST join them; and findRoot on any node returns the root
\* the pointers lead to and leaves a forest with the same nodes under each root.
DisjointSetsMatchTree ==
    (traversalState # Null /\ traversalState.type = "kruskal") =>
        \A parent \in {traversalState.parent} :
            /\ DOMAIN parent = NodeIds(currentGraph)
            /\ IsParentForest(parent)
            /\ \A a, b \in DOMAIN parent :
                  (TopOf(parent, a) = TopOf(parent, b))
                      <=> (b \in keyClosure(traversalState.edgesMST, {a}))
            /\ \A x \in DOMAIN parent :
                  \A found \in {findRoot(x, parent)} :
                      /\ found.root = TopOf(parent, x)
                      /\ IsParentForest(found.parent)
                      /\ SamePartition(parent, found.parent)
                      /\ \A n \in DOMAIN parent : TopOf(found.parent, n) = TopOf(parent, n)

\* C29: in every Kruskal state the disjoint-set parent map is a forest (the
\* parent pointers from any node reach a root, so findRoot terminates), two nodes
\* have the same root if and only if a path of edges in edgesMST connects them,
\* and path compression in findRoot never changes which nodes share a root.
C29_DisjointSetForest == DisjointSetsMatchTree

\* Kruskal on 0-1 (w1), 1-2 (w2), 2-3 (w1), 0-4 (w3) after its fourth step:
\* findRoot(0) found node 0 two pointers below the root 3 and pointed it, and
\* node 1, straight at the root.
C29_Witness ==
    /\ traversalState # Null
    /\ traversalState.type = "kruskal"
    /\ currentGraph.edges = ChainExample.edges
    /\ Cardinality(traversalState.edgesMST) = 4
    /\ traversalState.parent = [n \in 0..4 |-> 3]
    /\ <<0, 3>> \notin traversalState.edgesMST
    /\ <<1, 3>> \notin traversalState.edgesMST

====
